---- MODULE Spec2Model ----
\* Verification model of the resilient fetch orchestration core of shadow-api:
\* the request admission queue (runtime/request-queue.ts), the fetch pipeline
\* with its in-flight deduplicator and response cache (performance/*), and the
\* resilient executor with its circuit breaker, quarantine and retry policy
\* (reliability/*).  Each component has its own specification over the shared
\* variable list; the variables of the other components stay at their initial
\* values.
EXTENDS Integers, Sequences, FiniteSets, TLC

\* ---------------------------------------------------------------------------
\* Bounds of the model
\* ---------------------------------------------------------------------------
\* Number of enqueue calls considered.
MaxTasks == 4
\* Number of drain calls considered.
MaxDrains == 1
\* RequestQueueConfig.concurrency and RequestQueueConfig.maxSize of the instance.
Concurrency == 1
MaxSize == 2
\* The failure count of a circuit up to which recordFailure calls are considered.
MaxRecordedFailures == 4
\* Number of FetchPipeline.execute calls considered.
MaxCalls == 2
\* Last instant of the pipeline clock; ResponseCacheConfig.ttlMs and staleTtlMs.
MaxPClock == 3
CacheTtl == 1
StaleTtl == 1

\* The last instant of the executor's clock.
MaxNow == 3
\* CircuitBreakerConfig: failureThreshold, halfOpenSuccessThreshold, openMs.
FailureThreshold == 2
HalfOpenSuccessThreshold == 2
OpenMs == 2
\* ResilientExecutorConfig.sourceQuarantineMs.
SourceQuarantineMs == 1
\* ResilientExecutorConfig.proxyQuarantineMs, also the quarantineMs of the proxy pool.
ProxyQuarantineMs == 2
\* The number of fingerprint profiles the rotator holds.
NumProfiles == 2
\* The field names a request may ask for, and the most it lists.
NumFields == 3
MaxFieldsLen == 3
\* FetchPipelineConfig.fastModeMaxFields.
FastModeMaxFields == 2
\* IncidentReporterConfig: blockedSpikeThreshold, blockedSpikeWindowMs,
\* maxRecentEvents.
BlockedSpikeThreshold == 2
BlockedSpikeWindowMs == 1
MaxRecentEvents == 1
\* The markers the reporter holds at most, and the last instant of its clock.
MaxMarkers == 3
MaxIncidentNow == 3
\* CheckpointStore.maxEntries.
CheckpointMaxEntries == 1
\* The proxy URLs configured at most, the reports a proxy is followed for, and
\* the last instant of the pool's clock.
NumProxies == 2
MaxPoolReports == 1
MaxPoolNow == 3
\* AdaptiveRetryConfig: maxAttempts, baseDelayMs, maxDelayMs, blockedDelayMs, jitterMs.
RetryMaxAttempts == 2
\* The largest config.maxAttempts and attempt number decideRetry is called with.
MaxConfigAttempts == 3
MaxConfigBaseMs == 1
MaxConfigDelayMs == 4
MaxConfigJitterMs == 3
BaseDelayMs == 1
MaxDelayMs == 2
BlockedDelayMs == 1
JitterMs == 2

\* Number of dead-letter pushes, and the last instant of the dead-letter clock.
MaxPushes == 3
MaxDlqNow == 3
\* DeadLetterQueueConfig: maxEntries, retentionMs.
MaxEntries == 2
RetentionMs == 1

\* RequestQueueConfig.taskTimeoutMs, and the last instant of the queue clock.
TaskTimeoutMs == 1
MaxQueueNow == 3

Tasks == 1..MaxTasks
Pushes == 1..MaxPushes
\* The ResilientExecutor.execute calls that can be in progress at a time.
Reqs == {1, 2}
\* The sources requests are made for.
Sources == {"x"}
Drains == 1..MaxDrains
Calls == 1..MaxCalls
\* The request fingerprints (cache keys) considered.  One fingerprint has two
\* dedupe keys, its own and the one of the bypass namespace.
Fps == {1}

VARIABLES
    \* --- AsyncRequestQueue ---
    pending,         \* Array<QueueTask>: ids of the queued, not yet started tasks
    inflight,        \* number of runTask invocations that have not reached finally
    accepting,       \* false after pause()
    completed,       \* runTask invocations that resolved
    failed,          \* runTask invocations that rejected
    drainResolvers,  \* resolvers pushed by drain() calls
    admission,       \* per enqueue call: "none", "admitted", "backpressure", "closed"
    body,            \* per task: position of task.run(): "idle", "running", "finished"
    outcome,         \* per task: how the enqueue promise settled
    drainState,      \* per drain call: "idle", "waiting", "resolved", "timeout"
    queueNow,        \* the clock the timers of the queue run on
    admittedAt,      \* per task: when enqueue admitted it
    startedAt,       \* per task: when runTask started it and set its timer
    \* --- FetchPipeline, InflightDeduper, ResponseCache ---
    pclock,          \* Date.now() as the pipeline and the cache read it
    swr,             \* ResponseCacheConfig.staleWhileRevalidate
    cacheStore,      \* the provider's store: cache key -> envelope or NoEntry
    deduperInflight, \* InflightDeduper.inflight: dedupe key -> execution id or 0
    calls,           \* per FetchPipeline.execute call: its position and locals
    execs,           \* per task started by InflightDeduper.run: its position
    seenOutstanding, \* history: executions outstanding for the key when the call ran the deduper
    concurrentWith,  \* history: the calls in progress at the same time as the call
    \* --- ResilientExecutor, CircuitBreakerRegistry, QuarantineRegistry ---
    now,             \* Date.now() as the executor and its registries read it
    breakerEnabled,  \* CircuitBreakerConfig.enabled
    circuits,        \* CircuitBreakerRegistry.circuits: source -> CircuitStateInternal
    sourceEntries,   \* QuarantineRegistry.sourceEntries: source -> until, or NoTime
    reqs,            \* per ResilientExecutor.execute call: its position and locals
    runWeight,       \* history: weighted failures recorded since the circuit was last reset
    halfOpenRun,     \* history: successes recorded since the circuit last became half_open
    lastStep,        \* history: what the last step recorded and which attempt it began
    \* --- decideRetry called on its own ---
    retryCall,       \* the last decideRetry call: its arguments and its decision
    \* --- DeadLetterQueue and the final failure path of ResilientExecutor.execute ---
    dlqNow,          \* Date.now() as the dead-letter queue reads it
    dlqEnabled,      \* DeadLetterQueueConfig.enabled (the store is opened by init())
    dlqIndex,        \* DeadLetterQueue.index: ids, newest first
    dlqEntries,      \* DeadLetterQueue.entries: id -> record, the in-memory mirror
    dlqStore,        \* the key-value store: id -> persisted record
    dlqStoreIndex,   \* the key-value store: the persisted index
    dlqCalls,        \* per failed execute call: its position in the catch block and in push
    dlqEvicted,      \* history: ids removed because the index exceeded maxEntries
    dlqExpired,      \* history: ids a retention scan has found expired
    dlqPurge,        \* the purge() call: its position and the locals of its loop
    \* --- RotatingProxyPool, FingerprintRotator, IncidentReporter ---
    rotation,        \* the pools, the proxy quarantine and what each execute call selected
    \* --- CheckpointStore ---
    checkpoints,     \* CheckpointStore.records: the records in insertion order
    \* --- RotatingProxyPool called on its own ---
    proxyPool,       \* the pool, its clock, and the last call with what it returned
    \* --- the cache key of FetchPipeline.execute ---
    keyCall,         \* two execute calls: their inputs and the keys they were given
    \* --- IncidentReporter called on its own ---
    incident         \* the reporter: its clock, markers, events and last call

qvars == <<pending, inflight, accepting, completed, failed, drainResolvers,
           admission, body, outcome, drainState, queueNow, admittedAt, startedAt>>

pvars == <<pclock, swr, cacheStore, deduperInflight, calls, execs,
           seenOutstanding, concurrentWith>>

evars == <<now, breakerEnabled, circuits, sourceEntries, reqs,
           runWeight, halfOpenRun, lastStep>>

rvars == <<retryCall>>

dvars == <<dlqNow, dlqEnabled, dlqIndex, dlqEntries, dlqStore, dlqStoreIndex,
           dlqCalls, dlqEvicted, dlqExpired, dlqPurge>>

tvars == <<rotation>>

kvars == <<checkpoints>>

xvars == <<proxyPool>>

yvars == <<keyCall>>

ivars == <<incident>>

vars ==
    <<qvars, pvars, evars, rvars, dvars, tvars, kvars, xvars, yvars, ivars>>

\* What the queue, the pipeline and the executor never touch.
OutsideQueue ==
    <<pvars, evars, rvars, dvars, tvars, kvars, xvars, yvars, ivars>>
OutsidePipeline ==
    <<qvars, evars, rvars, dvars, tvars, kvars, xvars, yvars, ivars>>
OutsideExecutor ==
    <<qvars, pvars, rvars, dvars, tvars, kvars, xvars, yvars, ivars>>
OutsideRotation ==
    <<qvars, pvars, rvars, dvars, kvars, xvars, yvars, ivars>>
OutsideCheckpoint ==
    <<qvars, pvars, rvars, dvars, tvars, xvars, yvars, ivars>>
OutsideRetry ==
    <<qvars, pvars, evars, dvars, tvars, kvars, xvars, yvars, ivars>>
OutsideProxyPool ==
    <<qvars, pvars, evars, rvars, dvars, tvars, kvars, yvars, ivars>>
OutsideCacheKey ==
    <<qvars, pvars, evars, rvars, dvars, tvars, kvars, xvars, ivars>>
OutsideIncident ==
    <<qvars, pvars, evars, rvars, dvars, tvars, kvars, xvars, yvars>>
OutsideDeadLetter ==
    <<qvars, pvars, evars, rvars, tvars, kvars, xvars, yvars, ivars>>

\* ---------------------------------------------------------------------------
\* AsyncRequestQueue (src/src/runtime/request-queue.ts)
\* ---------------------------------------------------------------------------

QueueInit ==
    /\ pending = <<>>
    /\ inflight = 0
    /\ accepting = TRUE
    /\ completed = 0
    /\ failed = 0
    /\ drainResolvers = <<>>
    /\ admission = [t \in Tasks |-> "none"]
    /\ body = [t \in Tasks |-> "idle"]
    /\ outcome = [t \in Tasks |-> "none"]
    /\ drainState = [d \in Drains |-> "idle"]
    /\ queueNow = 0
    /\ admittedAt = [t \in Tasks |-> 0]
    /\ startedAt = [t \in Tasks |-> 0]

\* A pump that starts nothing while the queue is paused.
PumpCanStart_m(p, n) == accepting /\ n < Concurrency /\ Len(p) > 0

\* The loop condition of pump().
PumpCanStart(p, n) == n < Concurrency /\ Len(p) > 0

\* A pump that starts the task admitted last instead of the head of the list.
RECURSIVE pump_m(_, _, _)
pump_m(p, n, started) ==
    IF PumpCanStart(p, n)
    THEN pump_m(SubSeq(p, 1, Len(p) - 1), n + 1, started \cup {p[Len(p)]})
    ELSE [pending |-> p, inflight |-> n, started |-> started]

\* pump(): while a slot is free and a task is pending, shift the head of the
\* pending list, count it in flight and call runTask on it (which calls
\* task.run() synchronously).  Returns the pending list, the in-flight count
\* and the set of tasks whose body was started.
RECURSIVE pump(_, _, _)
pump(p, n, started) ==
    IF PumpCanStart(p, n)
    THEN pump(Tail(p), n + 1, started \cup {Head(p)})
    ELSE [pending |-> p, inflight |-> n, started |-> started]

\* An admission test that lets the pending list grow to maxSize + 1.
EnqueueDecision_m(acc, p) ==
    IF ~acc THEN "closed"
    ELSE IF Len(p) > MaxSize THEN "backpressure"
    ELSE "admitted"

\* The admission test of enqueue(): the error it throws, or "admitted".
EnqueueDecision(acc, p) ==
    IF ~acc THEN "closed"
    ELSE IF Len(p) >= MaxSize THEN "backpressure"
    ELSE "admitted"

\* runTask calls withTimeout for the tasks pump started: their timers are set now.
TimersSet(started) == [x \in Tasks |-> IF x \in started THEN queueNow ELSE startedAt[x]]

\* enqueue(run)
enqueue(t) ==
    /\ admission[t] = "none"
    /\ LET d == EnqueueDecision(accepting, pending) IN
       /\ admission' = [admission EXCEPT ![t] = d]
       /\ IF d = "admitted"
          THEN LET r == pump(Append(pending, t), inflight, {}) IN
               /\ pending' = r.pending
               /\ inflight' = r.inflight
               /\ body' = [x \in Tasks |-> IF x \in r.started THEN "running" ELSE body[x]]
               /\ admittedAt' = [admittedAt EXCEPT ![t] = queueNow]
               /\ startedAt' = TimersSet(r.started)
          ELSE UNCHANGED <<pending, inflight, body, admittedAt, startedAt>>
    /\ UNCHANGED <<accepting, completed, failed, drainResolvers, outcome, drainState,
                   queueNow>>
    /\ UNCHANGED OutsideQueue

\* A drain that is resolved as soon as nothing is pending.
DrainResolved_m(p, n, resolvers) ==
    IF Len(p) > 0 THEN {}
    ELSE {resolvers[i] : i \in 1..Len(resolvers)}

\* resolveDrainIfIdle(): the drain calls whose resolver is called, given the
\* pending list, the in-flight count and the resolvers.
DrainResolved(p, n, resolvers) ==
    IF Len(p) > 0 \/ n > 0 THEN {}
    ELSE {resolvers[i] : i \in 1..Len(resolvers)}

\* A finally block that leaves the in-flight count as it is.
RunTaskFinally_m(b) ==
    LET r == pump(pending, inflight, {})
        woken == DrainResolved(r.pending, r.inflight, drainResolvers)
    IN /\ pending' = r.pending
       /\ inflight' = r.inflight
       /\ drainResolvers' = IF woken = {} THEN drainResolvers ELSE <<>>
       /\ drainState' = [d \in Drains |->
                           IF d \in woken /\ drainState[d] = "waiting"
                           THEN "resolved" ELSE drainState[d]]
       /\ body' = [x \in Tasks |-> IF x \in r.started THEN "running" ELSE b[x]]
       /\ startedAt' = TimersSet(r.started)

\* The finally block of runTask: inflight -= 1; pump(); resolveDrainIfIdle().
\* b is the position of the task bodies when the block is entered.
RunTaskFinally(b) ==
    LET r == pump(pending, inflight - 1, {})
        woken == DrainResolved(r.pending, r.inflight, drainResolvers)
    IN /\ pending' = r.pending
       /\ inflight' = r.inflight
       /\ drainResolvers' = IF woken = {} THEN drainResolvers ELSE <<>>
       /\ drainState' = [d \in Drains |->
                           IF d \in woken /\ drainState[d] = "waiting"
                           THEN "resolved" ELSE drainState[d]]
       /\ body' = [x \in Tasks |-> IF x \in r.started THEN "running" ELSE b[x]]
       /\ startedAt' = TimersSet(r.started)

\* A queue whose timers never fire for a task whose body is still running.
Awaiting_m(t) == admission[t] = "admitted" /\ body[t] = "finished" /\ outcome[t] = "none"

\* A runTask invocation is awaiting withTimeout(task.run(), taskTimeoutMs).
Awaiting(t) == admission[t] = "admitted" /\ body[t] # "idle" /\ outcome[t] = "none"

\* task.run() settles (ok: it resolved).  If runTask is still awaiting the race,
\* it continues: counts the task, settles the enqueue promise and runs the
\* finally block.  If the timeout already won the race the body just ends.
TaskBodyFinish(t, ok) ==
    /\ body[t] = "running"
    /\ IF outcome[t] = "none"
       THEN /\ outcome' = [outcome EXCEPT ![t] = IF ok THEN "resolved" ELSE "error"]
            /\ completed' = IF ok THEN completed + 1 ELSE completed
            /\ failed' = IF ok THEN failed ELSE failed + 1
            /\ RunTaskFinally([body EXCEPT ![t] = "finished"])
       ELSE /\ body' = [body EXCEPT ![t] = "finished"]
            /\ UNCHANGED <<outcome, completed, failed, pending, inflight,
                           drainResolvers, drainState, startedAt>>
    /\ UNCHANGED <<accepting, admission, queueNow, admittedAt>>
    /\ UNCHANGED OutsideQueue

\* The timer of withTimeout fires before task.run() settles: the race rejects
\* with QueueTimeoutError, runTask counts a failure, rejects the enqueue promise
\* and runs the finally block.  Nothing cancels task.run(): the body keeps
\* running.
TaskTimeout(t) ==
    /\ Awaiting(t)
    /\ body[t] = "running"
    /\ outcome' = [outcome EXCEPT ![t] = "timeout"]
    /\ failed' = failed + 1
    /\ RunTaskFinally(body)
    /\ UNCHANGED <<accepting, completed, admission, queueNow, admittedAt>>
    /\ UNCHANGED OutsideQueue

\* pause()
pause ==
    /\ accepting' = FALSE
    /\ UNCHANGED <<pending, inflight, completed, failed, drainResolvers,
                   admission, body, outcome, drainState, queueNow, admittedAt, startedAt>>
    /\ UNCHANGED OutsideQueue

\* resume(): accepting = true; pump()
resume ==
    /\ accepting' = TRUE
    /\ LET r == pump(pending, inflight, {}) IN
       /\ pending' = r.pending
       /\ inflight' = r.inflight
       /\ body' = [x \in Tasks |-> IF x \in r.started THEN "running" ELSE body[x]]
       /\ startedAt' = TimersSet(r.started)
    /\ UNCHANGED <<completed, failed, drainResolvers, admission, outcome, drainState,
                   queueNow, admittedAt>>
    /\ UNCHANGED OutsideQueue

\* drain(timeoutMs): returns at once when idle, else registers a resolver and
\* awaits it under withTimeout.
drain(d) ==
    /\ drainState[d] = "idle"
    /\ IF Len(pending) = 0 /\ inflight = 0
       THEN /\ drainState' = [drainState EXCEPT ![d] = "resolved"]
            /\ UNCHANGED drainResolvers
       ELSE /\ drainState' = [drainState EXCEPT ![d] = "waiting"]
            /\ drainResolvers' = Append(drainResolvers, d)
    /\ UNCHANGED <<pending, inflight, accepting, completed, failed,
                   admission, body, outcome, queueNow, admittedAt, startedAt>>
    /\ UNCHANGED OutsideQueue

\* The timer of drain's withTimeout fires first: drain rejects with
\* QueueTimeoutError.  The resolver stays in drainResolvers.
DrainTimeout(d) ==
    /\ drainState[d] = "waiting"
    /\ drainState' = [drainState EXCEPT ![d] = "timeout"]
    /\ UNCHANGED <<pending, inflight, accepting, completed, failed, drainResolvers,
                   admission, body, outcome, queueNow, admittedAt, startedAt>>
    /\ UNCHANGED OutsideQueue

\* The timer withTimeout set for task t when runTask started it is due.
TimerDue(t) == queueNow >= startedAt[t] + TaskTimeoutMs

\* The timer of a task fires when it is due, not before.
TimedTaskTimeout(t) ==
    /\ TimerDue(t)
    /\ TaskTimeout(t)

\* Time passes, as long as no timer that is due is left unfired.
QueueTick ==
    /\ queueNow < MaxQueueNow
    /\ \A t \in Tasks : Awaiting(t) /\ body[t] = "running" => ~TimerDue(t)
    /\ queueNow' = queueNow + 1
    /\ UNCHANGED <<pending, inflight, accepting, completed, failed, drainResolvers,
                   admission, body, outcome, drainState, admittedAt, startedAt>>
    /\ UNCHANGED OutsideQueue

\* The queue with its clock: admissions, task bodies and task timers.
TimedQueueNext ==
    \/ \E t \in Tasks : enqueue(t)
    \/ \E t \in Tasks, ok \in BOOLEAN : TaskBodyFinish(t, ok)
    \/ \E t \in Tasks : TimedTaskTimeout(t)
    \/ QueueTick

QueueNext ==
    \/ \E t \in Tasks : enqueue(t)
    \/ \E t \in Tasks, ok \in BOOLEAN : TaskBodyFinish(t, ok)
    \/ \E t \in Tasks : TaskTimeout(t)
    \/ pause
    \/ resume
    \/ \E d \in Drains : drain(d)
    \/ \E d \in Drains : DrainTimeout(d)

\* ---------------------------------------------------------------------------
\* Properties of the admission queue
\* ---------------------------------------------------------------------------

\* The task bodies that were started and whose work has not finished.
Executing == {t \in Tasks : body[t] = "running"}

\* C3: at every instant the number of task bodies started through enqueue whose
\* work has not finished is at most config.concurrency.
C3_ExecutingWithinConcurrency == Cardinality(Executing) <= Concurrency

\* The tasks in the pending list.
Pending == {pending[i] : i \in 1..Len(pending)}

\* A rejected enqueue never adds its task to the pending list and never runs it,
\* and the pending list never holds more than maxSize tasks.
RejectedNeverRun ==
    /\ Len(pending) <= MaxSize
    /\ \A t \in Tasks :
          admission[t] \in {"backpressure", "closed"} =>
              /\ t \notin Pending
              /\ body[t] = "idle"
              /\ outcome[t] = "none"

\* An enqueue call made in this step while the pending list is full.
EnqueueWhileFull(t) ==
    admission[t] = "none" /\ admission'[t] # "none" /\ Len(pending) >= MaxSize

\* C4 as stated: an enqueue call made while the pending list holds maxSize tasks
\* is rejected with QueueBackpressureError, the pending list is left alone, the
\* task is never run and the pending list never exceeds maxSize.
C4_FullQueueRejectsWithBackpressure ==
    /\ []RejectedNeverRun
    /\ [][\A t \in Tasks : EnqueueWhileFull(t) =>
             admission'[t] = "backpressure" /\ pending' = pending]_vars

\* C4: an enqueue call made while the pending list holds maxSize tasks is
\* rejected at once, with QueueBackpressureError when the queue is accepting and
\* with QueueClosedError when it is paused; either way the pending list is left
\* alone, the task is never run and the pending list never exceeds maxSize.
C4_FullQueueRejects ==
    /\ []RejectedNeverRun
    /\ [][\A t \in Tasks : EnqueueWhileFull(t) =>
             /\ admission'[t] = IF accepting THEN "backpressure" ELSE "closed"
             /\ pending' = pending
             /\ body' = body]_vars

\* The example of the claim: one task in the only slot, the pending list full, and a
\* later enqueue rejected with the backpressure error.
C4_Witness ==
    /\ inflight = Concurrency
    /\ Len(pending) = MaxSize
    /\ \E t \in Tasks : admission[t] = "backpressure"

\* An enqueue call is made for task t in this step.
EnqueueCalled(t) == admission[t] = "none" /\ admission'[t] # "none"

\* A task whose enqueue was rejected with QueueClosedError is never queued and
\* never run.
ClosedNeverRun ==
    \A t \in Tasks :
        admission[t] = "closed" =>
            t \notin Pending /\ body[t] = "idle" /\ outcome[t] = "none"

\* A pending task waits only while every slot is taken, whether the queue is
\* paused or not.
PendingOnlyWhenSlotsTaken == Len(pending) > 0 => inflight = Concurrency

\* No step, pause included, drops an admitted task: a pending task stays pending
\* or is started, a running body goes on or finishes, and a finished one stays
\* finished.
AdmittedWorkKept ==
    \A t \in Tasks :
        /\ t \in Pending => (t \in Pending' \/ body'[t] = "running")
        /\ body[t] = "running" => body'[t] \in {"running", "finished"}
        /\ body[t] = "finished" => body'[t] = "finished"

\* C18: once pause() has been called, and until resume() is, every enqueue is
\* rejected with the queue-closed error and its task is never queued or run;
\* pause() itself changes nothing but the accepting flag, and the tasks
\* admitted before it are still started as slots become free and their bodies
\* run on to their end.
C18_PauseRejectsNewKeepsAdmitted ==
    /\ [](ClosedNeverRun /\ PendingOnlyWhenSlotsTaken)
    /\ [][\A t \in Tasks : EnqueueCalled(t) /\ ~accepting =>
             /\ admission'[t] = "closed"
             /\ UNCHANGED <<pending, inflight, body, outcome>>]_vars
    /\ [][accepting /\ ~accepting' =>
             UNCHANGED <<pending, inflight, body, outcome, admission>>]_vars
    /\ [][AdmittedWorkKept]_vars

\* The queue is paused and has rejected an enqueue as closed; of the tasks
\* admitted earlier one has finished, one is running and one is pending.
C18_Witness ==
    /\ ~accepting
    /\ \E t \in Tasks : admission[t] = "closed"
    /\ \E t \in Tasks : admission[t] = "admitted" /\ outcome[t] = "resolved"
    /\ \E t \in Tasks : admission[t] = "admitted" /\ body[t] = "running"
                        /\ outcome[t] = "none"
    /\ Len(pending) = 1

\* Admitted work is outstanding: a task is pending or in flight.
WorkOutstanding == Len(pending) > 0 \/ inflight > 0

\* C19: drain returns successfully only in a step that leaves no task pending
\* and none in flight, and a waiting drain is never left waiting once that is
\* so; when its timer fires while work is outstanding it rejects with the
\* timeout error, leaving the queue as it is, and a drain that has returned or
\* timed out stays so.
C19_DrainResolvesOnlyWhenIdle ==
    /\ [](\A d \in Drains : drainState[d] = "waiting" => WorkOutstanding)
    /\ [][\A d \in Drains :
             /\ (drainState[d] # "resolved" /\ drainState'[d] = "resolved") =>
                    Len(pending') = 0 /\ inflight' = 0
             /\ (drainState[d] # "timeout" /\ drainState'[d] = "timeout") =>
                    /\ drainState[d] = "waiting" /\ WorkOutstanding
                    /\ UNCHANGED <<pending, inflight, body, outcome>>
             /\ drainState[d] \in {"resolved", "timeout"} =>
                    drainState'[d] = drainState[d]]_vars

\* A drain has timed out while one task is in flight and another pending.
C19_Witness ==
    \E d \in Drains :
        /\ drainState[d] = "timeout"
        /\ inflight = Concurrency /\ Len(pending) > 0

\* C20: an admitted task whose time since admission exceeds taskTimeoutMs,
\* pending time included, has been failed with the timeout error: no admitted
\* task is unsettled, pending or running, later than taskTimeoutMs after its
\* admission, and none settles successfully later than that.
C20_TimeoutCountedFromAdmission ==
    /\ [](\A t \in Tasks :
             admission[t] = "admitted" /\ outcome[t] = "none" =>
                 queueNow <= admittedAt[t] + TaskTimeoutMs)
    /\ [][\A t \in Tasks :
             (outcome[t] = "none" /\ outcome'[t] \in {"resolved", "error"}) =>
                 queueNow <= admittedAt[t] + TaskTimeoutMs]_vars

\* ---------------------------------------------------------------------------
\* InflightDeduper (src/unnamed/part_018), ResponseCache (src/unnamed/part_019),
\* FetchPipeline (src/src/performance/cache-provider.ts)
\* ---------------------------------------------------------------------------

NoEntry == [present |-> FALSE, value |-> 0, expiresAt |-> 0, staleUntil |-> 0]

CacheModes == {"default", "bypass", "refresh"}

\* A pipeline that deduplicates every mode under the cache key.
DedupeKey_m(mode, fp) == [ns |-> "main", fp |-> fp]

\* const dedupeKey = cacheMode === "bypass" ? `bypass:${cacheKey}` : cacheKey
DedupeKey(mode, fp) == [ns |-> IF mode = "bypass" THEN "bypass" ELSE "main", fp |-> fp]
DedupeKeys == [ns : {"main", "bypass"}, fp : Fps]

\* const shouldWriteCache = cacheMode !== "bypass"
ShouldWriteCache(mode) == mode # "bypass"

IdleCall == [pc |-> "idle", fp |-> 0, mode |-> "default", got |-> NoEntry,
             state |-> "none", at |-> 0,
             path |-> "none", joined |-> 0, deduped |-> FALSE, result |-> 0]
IdleExec == [status |-> "none", key |-> [ns |-> "main", fp |-> 0], write |-> FALSE,
             ok |-> FALSE, env |-> NoEntry]

\* ResponseCache.set builds the envelope from Date.now() when it is called.
Envelope(value, t) ==
    [present |-> TRUE, value |-> value,
     expiresAt |-> t + CacheTtl, staleUntil |-> t + CacheTtl + StaleTtl]

\* What a provider that outlives the process (redis) may hold when the
\* pipeline is constructed: an entry an earlier process wrote at time 0.
EarlierValue == MaxCalls + 1
PersistedEntries == {NoEntry, Envelope(EarlierValue, 0)}

PipelineInit ==
    /\ pclock = 0
    /\ swr \in BOOLEAN
    /\ cacheStore \in [Fps -> PersistedEntries]
    /\ deduperInflight = [k \in DedupeKeys |-> 0]
    /\ calls = [c \in Calls |-> IdleCall]
    /\ execs = [c \in Calls |-> IdleExec]
    /\ seenOutstanding = [c \in Calls |-> {}]
    /\ concurrentWith = [c \in Calls |-> {}]

\* The value an execution's executor.execute call produced: every invocation
\* yields its own result (e) or its own error (-e).
ExecValue(e) == IF execs[e].ok THEN e ELSE 0 - e

\* An execution that has started and has not settled yet.
Outstanding(e) == execs[e].status \in {"running", "writing"}
OutstandingFor(k) == {e \in Calls : Outstanding(e) /\ execs[e].key = k}

\* A deduplicator that never finds a registered execution.
DeduperExisting_m(reg, k) == 0

\* InflightDeduper.run(key, task): the execution whose promise is returned,
\* given the registrations; 0 when a new task has to be started.
DeduperExisting(reg, k) == reg[k]

\* A deduplicator that does not register the task it starts.
DeduperSet_m(reg, k, c) == reg

\* this.inflight.set(key, promise): the registrations once call c started a task.
DeduperSet(reg, k, c) == [reg EXCEPT ![k] = c]

\* InflightDeduper.run(key, task) issued by call c.  When nothing is registered
\* under the key the task is started (its executor.execute call is made at
\* once) and registered under the id of the call that started it.
\* Returns what the call and the deduper are left with.
DeduperRun(c, k, write) ==
    LET existing == DeduperExisting(deduperInflight, k) IN
    IF existing # 0
    THEN [promise |-> existing, deduped |-> TRUE,
          reg |-> deduperInflight, execs |-> execs]
    ELSE [promise |-> c, deduped |-> FALSE,
          reg |-> DeduperSet(deduperInflight, k, c),
          execs |-> [execs EXCEPT ![c] = [status |-> "running", key |-> k,
                                          write |-> write, ok |-> FALSE,
                                          env |-> NoEntry]]]

\* The miss path of FetchPipeline.execute (lines 418-429): run the execution
\* through the deduper and await its promise.
RunThroughDeduper(c, fp, mode, cs) ==
    LET k == DedupeKey(mode, fp)
        r == DeduperRun(c, k, ShouldWriteCache(mode))
    IN /\ deduperInflight' = r.reg
       /\ execs' = r.execs
       /\ calls' = [cs EXCEPT ![c].pc = "waiting", ![c].path = "exec",
                                ![c].joined = r.promise, ![c].deduped = r.deduped]
       /\ seenOutstanding' = [seenOutstanding EXCEPT ![c] = OutstandingFor(k)]

InProgress(c) == calls[c].pc \notin {"idle", "done", "failed"}

\* FetchPipeline.execute(input) is called: the request is normalised and
\* fingerprinted; default mode issues cache.get and awaits it, bypass and
\* refresh go to the deduper in the same turn.  Calls are numbered in the
\* order they are made.
PipelineExecute(c, fp, mode) ==
    /\ calls[c].pc = "idle"
    /\ \A d \in Calls : d < c => calls[d].pc # "idle"
    /\ LET others == {d \in Calls : InProgress(d)} IN
       concurrentWith' = [d \in Calls |->
                            IF d = c THEN others
                            ELSE IF d \in others THEN concurrentWith[d] \cup {c}
                            ELSE concurrentWith[d]]
    /\ LET cs == [calls EXCEPT ![c].fp = fp, ![c].mode = mode] IN
       IF mode = "default"
       THEN /\ calls' = [cs EXCEPT ![c].pc = "lookup"]
            /\ UNCHANGED <<deduperInflight, execs, seenOutstanding>>
       ELSE RunThroughDeduper(c, fp, mode, cs)
    /\ UNCHANGED <<pclock, swr, cacheStore>>
    /\ UNCHANGED OutsidePipeline

\* A decoration that never reports a cache hit.
CacheHit_m(path) == FALSE

\* cache.hit of the result: decorateCachedResult sets it on the fresh and the
\* stale path, decorateExtractedResult clears it on the execution path.
CacheHit(path) == path \in {"fresh", "stale"}

\* provider.get(key) of ResponseCache.get completes with what the store holds.
ProviderGet(c) ==
    /\ calls[c].pc = "lookup"
    /\ calls' = [calls EXCEPT ![c].pc = "lookedUp", ![c].got = cacheStore[calls[c].fp]]
    /\ UNCHANGED <<pclock, swr, cacheStore, deduperInflight, execs,
                   seenOutstanding, concurrentWith>>
    /\ UNCHANGED OutsidePipeline

\* A lookup that is fresh only before expiresAt and stale only before staleUntil.
LookupState_m(entry, t) ==
    IF ~entry.present THEN "miss"
    ELSE IF t < entry.expiresAt THEN "fresh"
    ELSE IF t < entry.staleUntil THEN "stale"
    ELSE "expired"

\* ResponseCache.get after provider.get: the state of the lookup at time t.
\* "expired" is the miss that first deletes the entry.
LookupState(entry, t) ==
    IF ~entry.present THEN "miss"
    ELSE IF t <= entry.expiresAt THEN "fresh"
    ELSE IF t <= entry.staleUntil THEN "stale"
    ELSE "expired"

\* A background refresh deduplicated apart from the executions of the key.
RefreshKey_m(fp) == DedupeKey("bypass", fp)

\* this.deduper.run(key, ...) of triggerBackgroundRefresh: the cache key itself.
RefreshKey(fp) == DedupeKey("refresh", fp)

\* triggerBackgroundRefresh(key, request): a deduper run under the cache key
\* whose task always writes the cache; nobody awaits it.
TriggerBackgroundRefresh(c, fp, cs) ==
    LET k == RefreshKey(fp)
        r == DeduperRun(c, k, TRUE)
    IN /\ deduperInflight' = r.reg
       /\ execs' = r.execs
       /\ calls' = [cs EXCEPT ![c].joined = r.promise, ![c].deduped = r.deduped]
       /\ seenOutstanding' = [seenOutstanding EXCEPT ![c] = OutstandingFor(k)]

\* FetchPipeline.execute resumes after `await this.cache.get(cacheKey)`.
LookupResume(c) ==
    /\ calls[c].pc = "lookedUp"
    /\ LET st == LookupState(calls[c].got, pclock)
           fp == calls[c].fp
           looked == [calls EXCEPT ![c].state = st, ![c].at = pclock]
       IN CASE st = "fresh" ->
                 /\ calls' = [looked EXCEPT ![c].pc = "done", ![c].path = "fresh",
                                            ![c].result = calls[c].got.value]
                 /\ UNCHANGED <<deduperInflight, execs, seenOutstanding>>
            [] st = "stale" /\ swr ->
                 TriggerBackgroundRefresh(c, fp,
                     [looked EXCEPT ![c].pc = "done", ![c].path = "stale",
                                    ![c].result = calls[c].got.value])
            [] st = "expired" ->
                 /\ calls' = [looked EXCEPT ![c].pc = "evicting"]
                 /\ UNCHANGED <<deduperInflight, execs, seenOutstanding>>
            [] OTHER ->
                 RunThroughDeduper(c, fp, calls[c].mode, looked)
    /\ UNCHANGED <<pclock, swr, cacheStore, concurrentWith>>
    /\ UNCHANGED OutsidePipeline

\* provider.delete(key) of an expired lookup completes.
ProviderDelete(c) ==
    /\ calls[c].pc = "evicting"
    /\ cacheStore' = [cacheStore EXCEPT ![calls[c].fp] = NoEntry]
    /\ calls' = [calls EXCEPT ![c].pc = "evicted"]
    /\ UNCHANGED <<pclock, swr, deduperInflight, execs, seenOutstanding, concurrentWith>>
    /\ UNCHANGED OutsidePipeline

\* FetchPipeline.execute resumes with the miss of an expired lookup.
EvictResume(c) ==
    /\ calls[c].pc = "evicted"
    /\ RunThroughDeduper(c, calls[c].fp, calls[c].mode, calls)
    /\ UNCHANGED <<pclock, swr, cacheStore, concurrentWith>>
    /\ UNCHANGED OutsidePipeline

\* The registrations after the finally callback of the task registered under k:
\* this.inflight.delete(key).
\* A deduplicator that keeps the registration of a settled task.
DeduperDelete_m(reg, k) == reg

\* this.inflight.delete(key): the registrations once the task has settled.
DeduperDelete(reg, k) == [reg EXCEPT ![k] = 0]

\* A pipeline in which every call attached to an execution awaits it.
AwaitsRun_m(cl, e) == cl.joined = e

\* Call cl awaits the promise of execution e: the execution path does
\* (`await run.promise`), the stale path leaves the promise to its catch
\* handler and returns.
AwaitsRun(cl, e) == cl.pc = "waiting" /\ cl.joined = e

\* The task of execution e settles: the finally callback of InflightDeduper.run
\* removes the registration, the promise handed to the callers settles, and
\* every FetchPipeline.execute call awaiting it resumes and returns a clone of
\* the result or throws the error (one run of the microtask queue).
TaskSettles(e, ok) ==
    /\ deduperInflight' = DeduperDelete(deduperInflight, execs[e].key)
    /\ execs' = [execs EXCEPT ![e].ok = ok, ![e].status = "gone"]
    /\ calls' = [c \in Calls |->
                   IF AwaitsRun(calls[c], e)
                   THEN [calls[c] EXCEPT !.pc = IF ok THEN "done" ELSE "failed",
                                         !.result = IF ok THEN e ELSE 0 - e]
                   ELSE calls[c]]

\* executor.execute of the task of execution e settles.  On success a writing
\* task calls cache.set and awaits provider.set; otherwise the task settles.
ExecutorSettles(e, ok) ==
    /\ execs[e].status = "running"
    /\ IF ok /\ execs[e].write
       THEN /\ execs' = [execs EXCEPT ![e].ok = TRUE, ![e].status = "writing",
                                      ![e].env = Envelope(e, pclock)]
            /\ UNCHANGED <<deduperInflight, calls>>
       ELSE TaskSettles(e, ok)
    /\ UNCHANGED <<pclock, swr, cacheStore, seenOutstanding, concurrentWith>>
    /\ UNCHANGED OutsidePipeline

\* provider.set(key, envelope) completes and the task settles.
ProviderSet(e) ==
    /\ execs[e].status = "writing"
    /\ cacheStore' = [cacheStore EXCEPT ![execs[e].key.fp] = execs[e].env]
    /\ TaskSettles(e, TRUE)
    /\ UNCHANGED <<pclock, swr, seenOutstanding, concurrentWith>>
    /\ UNCHANGED OutsidePipeline

\* Time passes.
PipelineTick ==
    /\ pclock < MaxPClock
    /\ pclock' = pclock + 1
    /\ UNCHANGED <<swr, cacheStore, deduperInflight, calls, execs,
                   seenOutstanding, concurrentWith>>
    /\ UNCHANGED OutsidePipeline

PipelineNext ==
    \/ \E c \in Calls, fp \in Fps, mode \in CacheModes : PipelineExecute(c, fp, mode)
    \/ \E c \in Calls : ProviderGet(c)
    \/ \E c \in Calls : LookupResume(c)
    \/ \E c \in Calls : ProviderDelete(c)
    \/ \E c \in Calls : EvictResume(c)
    \/ \E e \in Calls, ok \in BOOLEAN : ExecutorSettles(e, ok)
    \/ \E e \in Calls : ProviderSet(e)
    \/ PipelineTick

\* ---------------------------------------------------------------------------
\* Errors (src/src/runtime/errors.ts) and the adaptive retry policy
\* (src/src/reliability/resilient-executor.ts, lines 234-400)
\* ---------------------------------------------------------------------------

\* A thrown value: an AppError (code, retryable flag, message), a plain Error
\* (message), or something that is no Error.  Of a message only what
\* classifyRetryCategory looks at is kept: whether it contains "timeout" or
\* "timed out", and whether it contains one of the network markers.
AppErrorCodes ==
    {"AUTH_REQUIRED", "AUTH_INVALID", "NOT_FOUND", "VALIDATION_ERROR",
     "SOURCE_NOT_SUPPORTED", "OPERATION_NOT_SUPPORTED", "SOURCE_BLOCKED",
     "QUEUE_BACKPRESSURE", "QUEUE_CLOSED", "QUEUE_TIMEOUT", "NAVIGATION_ERROR",
     "INTERNAL_ERROR", "SHUTTING_DOWN"}

\* The codes of the errors of the two registries, as classifyRetryCategory
\* tests them.
RegistryErrorCodes == {"CIRCUIT_OPEN", "SOURCE_QUARANTINED"}

AppErr(code, retryable, hasTimeout, hasNetwork) ==
    [kind |-> "AppError", code |-> code, retryable |-> retryable,
     hasTimeout |-> hasTimeout, hasNetwork |-> hasNetwork]
PlainErr(hasTimeout, hasNetwork) ==
    [kind |-> "Error", code |-> "", retryable |-> FALSE,
     hasTimeout |-> hasTimeout, hasNetwork |-> hasNetwork]
NonError ==
    [kind |-> "other", code |-> "", retryable |-> FALSE,
     hasTimeout |-> FALSE, hasNetwork |-> FALSE]

\* normalizeError(error)
normalizeError(error) ==
    IF error.kind = "AppError" THEN error
    ELSE IF error.kind = "Error"
         THEN AppErr("INTERNAL_ERROR", FALSE, error.hasTimeout, error.hasNetwork)
    ELSE AppErr("INTERNAL_ERROR", FALSE, FALSE, FALSE)

\* A classification that takes every error for a timeout.
classifyRetryCategory_m(error) == "timeout"

\* classifyRetryCategory(error)
classifyRetryCategory(error) ==
    IF error.kind = "AppError"
    THEN IF error.code \in {"SOURCE_BLOCKED", "SOURCE_QUARANTINED"} THEN "blocked"
         ELSE IF error.code = "QUEUE_TIMEOUT" THEN "timeout"
         ELSE IF error.code = "CIRCUIT_OPEN" THEN "circuit"
         ELSE IF error.code = "VALIDATION_ERROR"
              THEN IF error.hasTimeout THEN "timeout" ELSE "validation"
         ELSE IF error.code = "INTERNAL_ERROR"
              THEN IF error.hasTimeout THEN "timeout"
                   ELSE IF error.hasNetwork THEN "network"
                   ELSE "internal"
         ELSE IF error.retryable THEN "internal"
         ELSE "non_retryable"
    ELSE IF error.kind = "Error"
    THEN IF error.hasTimeout THEN "timeout"
         ELSE IF error.hasNetwork THEN "network"
         ELSE "internal"
    ELSE "internal"

Max(a, b) == IF a >= b THEN a ELSE b
Min(a, b) == IF a <= b THEN a ELSE b

RECURSIVE Pow2(_)
Pow2(n) == IF n <= 0 THEN 1 ELSE 2 * Pow2(n - 1)

\* clamp(value, min, max)
clamp(value, lo, hi) == Max(lo, Min(hi, value))

\* Math.floor(Math.random() * config.jitterMs): the values it can take.
Jitters(jitterMs) == IF jitterMs <= 0 THEN {0} ELSE 0..(jitterMs - 1)

\* computeDelay(config, category, attempt), jitter being the random term.
computeDelay(config, category, attempt, jitter) ==
    LET exp == Max(0, attempt - 1)
        base == IF category = "blocked" THEN config.blockedDelayMs
                ELSE config.baseDelayMs * Pow2(exp)
    IN clamp(base + jitter, 0, config.maxDelayMs)

\* A policy that also retries a circuit-open failure.
RetryableCategory_m(category) ==
    category \in {"timeout", "network", "blocked", "internal", "circuit"}

\* The categories decideRetry retries.
RetryableCategory(category) ==
    category \in {"timeout", "network", "blocked", "internal"}

\* A policy that still retries at the last attempt.
decideRetry_m(config, error, attempt, jitter) ==
    LET category == classifyRetryCategory(error)
        canRetry == attempt <= Max(1, config.maxAttempts) /\ RetryableCategory(category)
    IN [retry |-> canRetry, category |-> category,
        delayMs |-> IF canRetry THEN computeDelay(config, category, attempt, jitter) ELSE 0]

\* decideRetry(config, error, attempt), jitter being the random term.
decideRetry(config, error, attempt, jitter) ==
    LET category == classifyRetryCategory(error)
        maxAttempts == Max(1, config.maxAttempts)
        canRetry == attempt < maxAttempts /\ RetryableCategory(category)
    IN [retry |-> canRetry, category |-> category,
        delayMs |-> IF canRetry THEN computeDelay(config, category, attempt, jitter) ELSE 0]

\* The values decideRetry is called with.
Booleans == {TRUE, FALSE}
Errors ==
    {AppErr(code, retryable, hasTimeout, hasNetwork) :
        code \in AppErrorCodes \cup RegistryErrorCodes, retryable \in Booleans,
        hasTimeout \in Booleans, hasNetwork \in Booleans}
    \cup {PlainErr(hasTimeout, hasNetwork) : hasTimeout \in Booleans, hasNetwork \in Booleans}
    \cup {NonError}

\* The retry configuration the service builds its executor with.
RetryConfig ==
    [maxAttempts |-> RetryMaxAttempts, baseDelayMs |-> BaseDelayMs,
     maxDelayMs |-> MaxDelayMs, blockedDelayMs |-> BlockedDelayMs, jitterMs |-> JitterMs]

\* The retry configurations decideRetry is called with.
RetryConfigs ==
    {[maxAttempts |-> m, baseDelayMs |-> b, maxDelayMs |-> d,
      blockedDelayMs |-> BlockedDelayMs, jitterMs |-> j] :
        m \in 1..MaxConfigAttempts, b \in 0..MaxConfigBaseMs,
        d \in 0..MaxConfigDelayMs, j \in 0..MaxConfigJitterMs}

NoRetryCall ==
    [called |-> FALSE, maxAttempts |-> 1, config |-> RetryConfig,
     error |-> NonError, attempt |-> 1,
     decision |-> [retry |-> FALSE, category |-> "internal", delayMs |-> 0]]

RetryInit == retryCall = NoRetryCall

\* decideRetry(config, error, attempt) is called.
CallDecideRetry(config, error, attempt, jitter) ==
    /\ ~retryCall.called
    /\ retryCall' = [called |-> TRUE, maxAttempts |-> config.maxAttempts,
                     config |-> config, error |-> error, attempt |-> attempt,
                     decision |-> decideRetry(config, error, attempt, jitter)]
    /\ UNCHANGED OutsideRetry

\* The execution loop slept, its next attempt failed with the same error, and
\* decideRetry is called for that attempt.
CallDecideRetryAgain(jitter) ==
    /\ retryCall.called
    /\ retryCall.decision.retry
    /\ retryCall' = [retryCall EXCEPT
           !.attempt = @ + 1,
           !.decision = decideRetry(retryCall.config, retryCall.error,
                                    retryCall.attempt + 1, jitter)]
    /\ UNCHANGED OutsideRetry

\* The caller has taken the decision.
RetryReturn ==
    /\ retryCall.called
    /\ retryCall' = NoRetryCall
    /\ UNCHANGED OutsideRetry

RetryNext ==
    \/ /\ ~retryCall.called
       /\ \E config \in RetryConfigs, error \in Errors, attempt \in 1..MaxConfigAttempts :
              \E jitter \in Jitters(config.jitterMs) :
                  CallDecideRetry(config, error, attempt, jitter)
    \/ \E jitter \in Jitters(retryCall.config.jitterMs) : CallDecideRetryAgain(jitter)
    \/ RetryReturn

\* ---------------------------------------------------------------------------
\* CircuitBreakerRegistry (src/src/reliability/checkpoint-store.ts, lines 116-264)
\* QuarantineRegistry (src/src/reliability/layout-fallback.ts, lines 230-330)
\* ---------------------------------------------------------------------------

\* null of a timestamp field.
NoTime == 0 - 1

\* The record ensure() creates.  present tells whether the map holds the source.
NewCircuit ==
    [present |-> TRUE, state |-> "closed", consecutiveFailures |-> 0,
     halfOpenSuccesses |-> 0, openedAt |-> NoTime, openUntil |-> NoTime]
AbsentCircuit == [NewCircuit EXCEPT !.present = FALSE]

\* ensure(source): the circuit of the source, created when missing.
ensure(circ, s) == IF circ[s].present THEN circ[s] ELSE NewCircuit

\* maybeTransitionFromOpen(circuit) at time t.
maybeTransitionFromOpen(c, t) ==
    IF c.state # "open" THEN c
    ELSE IF c.openUntil = NoTime THEN c
    ELSE IF t < c.openUntil THEN c
    ELSE [c EXCEPT !.state = "half_open", !.halfOpenSuccesses = 0]

\* open(circuit) at time t.
open(c, t) ==
    [c EXCEPT !.state = "open", !.openedAt = t, !.openUntil = t + OpenMs,
              !.halfOpenSuccesses = 0]

\* A reset that keeps the failure count.
reset_m(c) ==
    [c EXCEPT !.state = "closed", !.halfOpenSuccesses = 0,
              !.openedAt = NoTime, !.openUntil = NoTime]

\* reset(circuit)
reset(c) ==
    [c EXCEPT !.state = "closed", !.consecutiveFailures = 0, !.halfOpenSuccesses = 0,
              !.openedAt = NoTime, !.openUntil = NoTime]

\* A registry that weighs every failure alike.
FailureWeight_m(blocked) == 1

\* The weight recordFailure gives a failure.
FailureWeight(blocked) == IF blocked THEN 2 ELSE 1

\* A half-open circuit that closes on its first success.
ReachesHalfOpenThreshold_m(n) == n >= 1

\* The threshold tests of recordFailure and recordSuccess.
ReachesFailureThreshold(n) == n >= FailureThreshold
ReachesHalfOpenThreshold(n) == n >= HalfOpenSuccessThreshold

\* recordSuccess(source): the circuits afterwards.
recordSuccess(circ, s) ==
    IF ~breakerEnabled THEN circ
    ELSE LET c == ensure(circ, s) IN
         IF c.state = "half_open"
         THEN LET c1 == [c EXCEPT !.halfOpenSuccesses = c.halfOpenSuccesses + 1] IN
              [circ EXCEPT ![s] = IF ReachesHalfOpenThreshold(c1.halfOpenSuccesses)
                                  THEN reset(c1) ELSE c1]
         ELSE [circ EXCEPT ![s] = reset(c)]

\* A half-open circuit that reopens without a new window.
FailInHalfOpen_m(c, t) == [c EXCEPT !.state = "open", !.halfOpenSuccesses = 0]

\* What recordFailure does to a half-open circuit.
FailInHalfOpen(c, t) == open(c, t)

\* recordFailure(source, {blocked}) at time t: the circuits afterwards.
recordFailure(circ, s, blocked, t) ==
    IF ~breakerEnabled THEN circ
    ELSE LET c == ensure(circ, s)
             c1 == [c EXCEPT !.consecutiveFailures =
                                 c.consecutiveFailures + FailureWeight(blocked)]
         IN IF c1.state = "half_open"
            THEN [circ EXCEPT ![s] = FailInHalfOpen(c1, t)]
            ELSE IF ReachesFailureThreshold(c1.consecutiveFailures)
                 THEN [circ EXCEPT ![s] = open(c1, t)]
                 ELSE [circ EXCEPT ![s] = c1]

\* A registry whose admission check never throws.
assertCanExecute_m(circ, s, t) == [circuits |-> circ, throws |-> FALSE]

\* assertCanExecute(source) at time t: the circuits afterwards and whether it
\* throws CircuitOpenError.
assertCanExecute(circ, s, t) ==
    IF ~breakerEnabled THEN [circuits |-> circ, throws |-> FALSE]
    ELSE LET c == maybeTransitionFromOpen(ensure(circ, s), t) IN
         [circuits |-> [circ EXCEPT ![s] = c], throws |-> c.state = "open"]

\* QuarantineRegistry.pruneExpired() at time t.
pruneExpired(entries, t) ==
    [s \in Sources |-> IF entries[s] # NoTime /\ entries[s] <= t THEN NoTime ELSE entries[s]]

\* assertSourceReady(source) at time t: the entries afterwards and whether it
\* throws SourceQuarantinedError.
assertSourceReady(entries, s, t) ==
    LET pruned == pruneExpired(entries, t) IN
    [entries |-> pruned, throws |-> pruned[s] # NoTime]

\* quarantineSource(source, reason, durationMs) at time t.
quarantineSource(entries, s, t) == [entries EXCEPT ![s] = t + SourceQuarantineMs]

\* ---------------------------------------------------------------------------
\* ResilientExecutor.execute (src/src/reliability/resilient-executor.ts, lines 63-231)
\* with executeWithAdaptiveRetry (lines 355-400)
\* ---------------------------------------------------------------------------

\* The errors the two admission checks of runAttempt throw.  Their classes are
\* imported from runtime/errors; only their codes matter to the retry policy.
CircuitOpenError == AppErr("CIRCUIT_OPEN", TRUE, FALSE, FALSE)
SourceQuarantinedError == AppErr("SOURCE_QUARANTINED", TRUE, FALSE, FALSE)
NoError == AppErr("", FALSE, FALSE, FALSE)

\* What the Extractor is taken to throw: an anti-bot block, a validation
\* failure, the validation error of a page fetch that timed out ("Target page
\* fetch timed out."), and a network failure raised as a plain Error.
SourceBlockedError == AppErr("SOURCE_BLOCKED", TRUE, FALSE, FALSE)
ValidationError == AppErr("VALIDATION_ERROR", FALSE, FALSE, FALSE)
FetchTimedOutError == AppErr("VALIDATION_ERROR", FALSE, TRUE, FALSE)
ExtractorErrors ==
    {SourceBlockedError, ValidationError, FetchTimedOutError, PlainErr(FALSE, TRUE)}

\* One execute call.  pc is where it stands: "extracting" awaits
\* extractionService.execute, "reporting" awaits incidentReporter.reportBlocked,
\* "sleeping" awaits sleep(delayMs).  gate is how the admission checks of the
\* current attempt ended; running and invokedFor are history: the attempts in
\* progress, and the attempts that invoked the Extractor.
IdleReq ==
    [pc |-> "idle", source |-> CHOOSE s \in Sources : TRUE, attempt |-> 0,
     gate |-> "none", error |-> NoError, delayMs |-> 0, sleepFrom |-> 0,
     running |-> {}, invokedFor |-> {}, webhook |-> "none"]

NoStep == [op |-> "none", source |-> CHOOSE s \in Sources : TRUE,
           blocked |-> FALSE, before |-> "closed", started |-> 0]

ExecutorInit ==
    /\ now = 0
    /\ breakerEnabled \in BOOLEAN
    /\ circuits = [s \in Sources |-> AbsentCircuit]
    /\ sourceEntries = [s \in Sources |-> NoTime]
    /\ reqs = [r \in Reqs |-> IdleReq]
    /\ runWeight = [s \in Sources |-> 0]
    /\ halfOpenRun = [s \in Sources |-> 0]
    /\ lastStep = NoStep

\* The catch block of executeWithAdaptiveRetry for an attempt that threw error:
\* the final failure, or the sleep before the next attempt.
RetryLoopCatch(rq, error, jitter) ==
    LET decision == decideRetry(RetryConfig, error, rq.attempt, jitter) IN
    IF decision.retry
    THEN [rq EXCEPT !.pc = "sleeping", !.error = error, !.delayMs = decision.delayMs,
                    !.sleepFrom = now, !.running = rq.running \ {rq.attempt}]
    ELSE [rq EXCEPT !.pc = "failed", !.error = error, !.delayMs = decision.delayMs,
                    !.sleepFrom = 0, !.running = rq.running \ {rq.attempt}]

\* runAttempt(attempt) up to the call of the Extractor: the source must not be
\* quarantined, then the circuit must not be open.  Both checks stand before
\* the try block, so what they throw goes to the retry loop unrecorded.
RunAttempt(rq, jitter) ==
    LET running == [rq EXCEPT !.running = rq.running \cup {rq.attempt},
                              !.error = NoError, !.delayMs = 0, !.sleepFrom = 0]
        ready == assertSourceReady(sourceEntries, rq.source, now)
        can == assertCanExecute(circuits, rq.source, now)
    IN IF ready.throws
       THEN [req |-> RetryLoopCatch([running EXCEPT !.gate = "quarantined"],
                                    SourceQuarantinedError, jitter),
             circuits |-> circuits, entries |-> ready.entries]
       ELSE IF can.throws
       THEN [req |-> RetryLoopCatch([running EXCEPT !.gate = "circuit_open"],
                                    CircuitOpenError, jitter),
             circuits |-> can.circuits, entries |-> ready.entries]
       ELSE [req |-> [running EXCEPT !.gate = "passed", !.pc = "extracting",
                                     !.invokedFor = rq.invokedFor \cup {rq.attempt}],
             circuits |-> can.circuits, entries |-> ready.entries]

\* The history of a step that recorded op ("success", "failure" or "none") for
\* source s, began an attempt of request started (0: none) and left the
\* circuits as circ.
History(op, s, blocked, started, circ) ==
    LET recorded == IF breakerEnabled THEN op ELSE "none" IN
    /\ lastStep' = [op |-> recorded, source |-> s, blocked |-> blocked,
                    before |-> IF recorded = "none" THEN "closed" ELSE circuits[s].state,
                    started |-> started]
    /\ runWeight' = [runWeight EXCEPT ![s] =
                        IF recorded = "success" THEN 0
                        ELSE IF recorded = "failure" THEN @ + (IF blocked THEN 2 ELSE 1)
                        ELSE @]
    /\ halfOpenRun' = [x \in Sources |->
                          IF circ[x].state = "half_open" /\ circuits[x].state # "half_open"
                          THEN 0
                          ELSE IF recorded = "success" /\ x = s
                                  /\ circuits[x].state = "half_open"
                               THEN halfOpenRun[x] + 1
                               ELSE halfOpenRun[x]]

\* execute(request) for source s, up to its first await: attempt 1 begins.
executeStep(r, s) ==
    /\ reqs[r].pc \in {"idle", "done", "failed"}
    /\ \E jitter \in Jitters(JitterMs) :
          LET res == RunAttempt([IdleReq EXCEPT !.source = s, !.attempt = 1], jitter) IN
          /\ reqs' = [reqs EXCEPT ![r] = res.req]
          /\ circuits' = res.circuits
          /\ sourceEntries' = res.entries
          /\ History("none", s, FALSE, r, res.circuits)
    /\ UNCHANGED <<now, breakerEnabled>>

\* execute(request) with proxy rotation and fingerprint rotation disabled.
execute(r, s) == executeStep(r, s) /\ UNCHANGED OutsideExecutor

\* extractionService.execute resolves: the success path of runAttempt.
ExtractorResolvesStep(r) ==
    /\ reqs[r].pc = "extracting"
    /\ LET circ == recordSuccess(circuits, reqs[r].source) IN
       /\ circuits' = circ
       /\ reqs' = [reqs EXCEPT ![r].pc = "done",
                               ![r].running = @ \ {reqs[r].attempt}]
       /\ History("success", reqs[r].source, FALSE, 0, circ)
    /\ UNCHANGED <<now, breakerEnabled, sourceEntries>>

\* The success path with no proxy selected.
ExtractorResolves(r) == ExtractorResolvesStep(r) /\ UNCHANGED OutsideExecutor

\* extractionService.execute rejects with error: the catch block of runAttempt.
\* A blocked failure quarantines the source and awaits the incident report;
\* any other failure is rethrown to the retry loop at once.
ExtractorRejectsStep(r, error) ==
    /\ reqs[r].pc = "extracting"
    /\ LET appError == normalizeError(error)
           blocked == appError.code \in {"SOURCE_BLOCKED", "SOURCE_QUARANTINED"}
           s == reqs[r].source
           circ == recordFailure(circuits, s, blocked, now)
       IN /\ circuits' = circ
          /\ History("failure", s, blocked, 0, circ)
          /\ IF blocked
             THEN /\ sourceEntries' = quarantineSource(sourceEntries, s, now)
                  /\ reqs' = [reqs EXCEPT ![r].pc = "reporting", ![r].error = appError]
             ELSE /\ sourceEntries' = sourceEntries
                  /\ \E jitter \in Jitters(JitterMs) :
                        reqs' = [reqs EXCEPT ![r] = RetryLoopCatch(reqs[r], appError, jitter)]
    /\ UNCHANGED <<now, breakerEnabled>>

\* The catch block with no proxy selected, the pools left aside.
ExtractorRejects(r, error) == ExtractorRejectsStep(r, error) /\ UNCHANGED OutsideExecutor

\* What the delivery of an incident to the webhook comes to: "none" when no
\* webhook is configured or reportBlocked is below the spike threshold,
\* "delivered" and "refused" when fetch resolves with a 2xx or another status,
\* "rejected" when fetch rejects.
WebhookOutcomes == {"none", "delivered", "refused", "rejected"}

\* The Error a rejected fetch carries.
WebhookError == PlainErr(FALSE, TRUE)

\* An emit without the try block around fetch.
emit_m(delivery) == [throws |-> delivery = "rejected", logged |-> FALSE]

\* IncidentReporter.emit(event) for a given delivery: the rejection of fetch is
\* caught and logged.
emit(delivery) == [throws |-> FALSE, logged |-> delivery = "rejected"]

\* incidentReporter.reportBlocked settles after the given delivery: runAttempt
\* rethrows the error, or is left with what emit threw.
ReportBlockedSettlesWith(r, delivery) ==
    /\ reqs[r].pc = "reporting"
    /\ LET thrown == IF emit(delivery).throws THEN normalizeError(WebhookError)
                     ELSE reqs[r].error
       IN \E jitter \in Jitters(JitterMs) :
             reqs' = [reqs EXCEPT ![r] = [RetryLoopCatch(reqs[r], thrown, jitter)
                                             EXCEPT !.webhook = delivery]]
    /\ History("none", reqs[r].source, FALSE, 0, circuits)
    /\ UNCHANGED <<now, breakerEnabled, circuits, sourceEntries>>
    /\ UNCHANGED OutsideExecutor

\* incidentReporter.reportBlocked settles with no webhook configured: runAttempt
\* rethrows the error.
ReportBlockedSettlesStep(r) ==
    /\ reqs[r].pc = "reporting"
    /\ \E jitter \in Jitters(JitterMs) :
          reqs' = [reqs EXCEPT ![r] = RetryLoopCatch(reqs[r], reqs[r].error, jitter)]
    /\ History("none", reqs[r].source, FALSE, 0, circuits)
    /\ UNCHANGED <<now, breakerEnabled, circuits, sourceEntries>>

\* The rethrow with proxy rotation and fingerprint rotation disabled.
ReportBlockedSettles(r) == ReportBlockedSettlesStep(r) /\ UNCHANGED OutsideExecutor

\* A retry loop that does not wait for the delay.
SleepElapsed_m(rq) == TRUE

\* The timer of sleep(delayMs) has fired.
SleepElapsed(rq) == now >= rq.sleepFrom + rq.delayMs

\* sleep(delayMs) resolves: attempt += 1 and the loop runs the next attempt.
SleepResolvesStep(r) ==
    /\ reqs[r].pc = "sleeping"
    /\ SleepElapsed(reqs[r])
    /\ \E jitter \in Jitters(JitterMs) :
          LET res == RunAttempt([reqs[r] EXCEPT !.attempt = @ + 1], jitter) IN
          /\ reqs' = [reqs EXCEPT ![r] = res.req]
          /\ circuits' = res.circuits
          /\ sourceEntries' = res.entries
          /\ History("none", reqs[r].source, FALSE, r, res.circuits)
    /\ UNCHANGED <<now, breakerEnabled>>

\* The next attempt, the collaborators of the executor left aside.
SleepResolves(r) == SleepResolvesStep(r) /\ UNCHANGED OutsideExecutor

\* ResilientExecutor.snapshot(): CircuitBreakerRegistry.snapshot() moves every
\* open circuit whose window has passed to half_open, and
\* QuarantineRegistry.snapshot() prunes the expired entries.
snapshot ==
    /\ LET circ == [s \in Sources |->
                       IF circuits[s].present
                       THEN maybeTransitionFromOpen(circuits[s], now)
                       ELSE circuits[s]]
       IN /\ circuits' = circ
          /\ History("none", CHOOSE s \in Sources : TRUE, FALSE, 0, circ)
    /\ sourceEntries' = pruneExpired(sourceEntries, now)
    /\ UNCHANGED <<now, breakerEnabled, reqs>>
    /\ UNCHANGED OutsideExecutor

\* Time passes.
ExecutorTick ==
    /\ now < MaxNow
    /\ now' = now + 1
    /\ lastStep' = NoStep
    /\ UNCHANGED <<breakerEnabled, circuits, sourceEntries, reqs, runWeight, halfOpenRun>>
    /\ UNCHANGED OutsideExecutor

ExecutorNext ==
    \/ \E r \in Reqs, s \in Sources : execute(r, s)
    \/ \E r \in Reqs : ExtractorResolves(r)
    \/ \E r \in Reqs, error \in ExtractorErrors : ExtractorRejects(r, error)
    \/ \E r \in Reqs : ReportBlockedSettles(r)
    \/ \E r \in Reqs : SleepResolves(r)
    \/ snapshot
    \/ ExecutorTick

\* ---------------------------------------------------------------------------
\* CircuitBreakerRegistry on its own, called for several sources
\* (src/src/reliability/checkpoint-store.ts, lines 147-264)
\* ---------------------------------------------------------------------------

\* The source arguments the registry is called with: two sources, one of them
\* also in a second spelling.
SourceNames == {"x", " X", "y"}

\* The key ensure() files a circuit under: source.trim().toLowerCase().
CircuitKey(name) == IF name = " X" THEN "x" ELSE name
CircuitKeys == {CircuitKey(name) : name \in SourceNames}

\* A registry that has not been called yet.
RegistryInit ==
    /\ now = 0
    /\ breakerEnabled \in BOOLEAN
    /\ circuits = [k \in CircuitKeys |-> AbsentCircuit]
    /\ sourceEntries = [s \in Sources |-> NoTime]
    /\ reqs = [r \in Reqs |-> IdleReq]
    /\ runWeight = [s \in Sources |-> 0]
    /\ halfOpenRun = [s \in Sources |-> 0]
    /\ lastStep = NoStep

\* The circuits of this specification have a place for the key of the source.
Registered(name) == CircuitKey(name) \in DOMAIN circuits

\* The history of a registry call: which method, and the source argument.
RegistryCall(op, name, blocked) ==
    /\ lastStep' = [op |-> op, source |-> name, blocked |-> blocked,
                    before |-> ensure(circuits, CircuitKey(name)).state, started |-> 0]
    /\ UNCHANGED <<now, breakerEnabled, sourceEntries, reqs, runWeight, halfOpenRun>>
    /\ UNCHANGED OutsideExecutor

\* assertCanExecute(source), whether it throws or not.
RegistryAssertCanExecute(name) ==
    /\ Registered(name)
    /\ circuits' = assertCanExecute(circuits, CircuitKey(name), now).circuits
    /\ RegistryCall("assert", name, FALSE)

\* recordSuccess(source)
RegistryRecordSuccess(name) ==
    /\ Registered(name)
    /\ circuits' = recordSuccess(circuits, CircuitKey(name))
    /\ RegistryCall("success", name, FALSE)

\* recordFailure(source, {blocked}).  The model stops counting at
\* MaxRecordedFailures.
RegistryRecordFailure(name, blocked) ==
    /\ Registered(name)
    /\ ensure(circuits, CircuitKey(name)).consecutiveFailures < MaxRecordedFailures
    /\ circuits' = recordFailure(circuits, CircuitKey(name), blocked, now)
    /\ RegistryCall("failure", name, blocked)

\* snapshot(): every circuit goes through maybeTransitionFromOpen.
RegistrySnapshot ==
    /\ circuits' = [k \in DOMAIN circuits |->
                       IF circuits[k].present
                       THEN maybeTransitionFromOpen(circuits[k], now)
                       ELSE circuits[k]]
    /\ RegistryCall("snapshot", CHOOSE n \in SourceNames : Registered(n), FALSE)

\* The entry snapshot() returns for circuit c: taken is the time read at the
\* top of snapshot(), t the time maybeTransitionFromOpen reads for the entry.
SnapshotEntry(c, taken, t) ==
    LET entry == maybeTransitionFromOpen(c, t) IN
    [state |-> entry.state,
     consecutive_failures |-> entry.consecutiveFailures,
     opened_at |-> entry.openedAt,
     open_until |-> IF entry.openUntil # NoTime /\ entry.openUntil > taken
                    THEN entry.openUntil ELSE NoTime]

RegistryNext ==
    \/ \E name \in SourceNames : RegistryAssertCanExecute(name)
    \/ \E name \in SourceNames : RegistryRecordSuccess(name)
    \/ \E name \in SourceNames, blocked \in BOOLEAN : RegistryRecordFailure(name, blocked)
    \/ RegistrySnapshot
    \/ ExecutorTick

\* ---------------------------------------------------------------------------
\* Proxy rotation, fingerprint rotation and blocked markers (layout-fallback.ts,
\* the fingerprint rotator, incident-reporter.ts) under ResilientExecutor
\* ---------------------------------------------------------------------------

\* One proxy URL is configured: proxy_1.  NoProxy is the null of next().
NoProxy == 0
ProxyOne == 1
\* The profiles of the rotator, by their place in DEFAULT_PROFILES.
Profiles == 1..NumProfiles
DefaultProfile == 1

\* The pools after construction: proxy rotation enabled or not, fingerprint
\* rotation enabled or not.  selected holds the locals selectedProxy and
\* selectedFingerprint of every execute call; used is history: what the call's
\* last attempt that reached the Extractor and failed was sent with.
RotationStart(proxyEnabled, fingerprintEnabled) ==
    [proxyEnabled |-> proxyEnabled,
     fingerprintEnabled |-> fingerprintEnabled,
     proxy |-> [successes |-> 0, failures |-> 0, blocked |-> 0, lastUsedAt |-> NoTime,
                quarantinedUntil |-> NoTime, lastError |-> FALSE],
     proxyEntry |-> NoTime,
     cursor |-> 0,
     profiles |-> [p \in Profiles |-> [uses |-> 0, blocked |-> 0, lastUsedAt |-> NoTime]],
     blockedMarkers |-> 0,
     selected |-> [r \in Reqs |-> [proxy |-> NoProxy, fingerprint |-> DefaultProfile]],
     used |-> [r \in Reqs |-> [proxy |-> NoProxy, fingerprint |-> DefaultProfile]]]

RotationInit ==
    \E proxyEnabled \in BOOLEAN, fingerprintEnabled \in BOOLEAN :
        rotation = RotationStart(proxyEnabled, fingerprintEnabled)

\* RotatingProxyPool.next(): the proxy picked, or NoProxy when rotation is
\* disabled or the proxy is still quarantined.
ProxyPoolPick(rot, t) ==
    IF ~rot.proxyEnabled THEN NoProxy
    ELSE IF rot.proxy.quarantinedUntil = NoTime \/ t >= rot.proxy.quarantinedUntil
    THEN ProxyOne
    ELSE NoProxy

\* RotatingProxyPool.next(): the pool afterwards.
ProxyPoolNext(rot, t) ==
    IF ProxyPoolPick(rot, t) = NoProxy THEN rot
    ELSE [rot EXCEPT !.proxy.lastUsedAt = t]

\* RotatingProxyPool.reportSuccess(proxyId).
reportSuccess(rot, proxyId) ==
    IF proxyId # ProxyOne THEN rot
    ELSE [rot EXCEPT !.proxy.successes = @ + 1, !.proxy.lastError = FALSE]

\* RotatingProxyPool.reportFailure(proxyId, {blocked, error}).
reportFailure(rot, proxyId, blocked, t) ==
    IF proxyId # ProxyOne THEN rot
    ELSE LET failed1 == [rot EXCEPT !.proxy.failures = @ + 1, !.proxy.lastError = TRUE] IN
         IF blocked
         THEN [failed1 EXCEPT !.proxy.blocked = @ + 1,
                              !.proxy.quarantinedUntil = t + ProxyQuarantineMs]
         ELSE failed1

\* QuarantineRegistry.quarantineProxy(proxyId, reason, proxyQuarantineMs).
quarantineProxy(rot, proxyId, t) ==
    IF proxyId = NoProxy THEN rot
    ELSE [rot EXCEPT !.proxyEntry = t + ProxyQuarantineMs]

\* FingerprintRotator.next(): the profile picked.
FingerprintPick(rot) ==
    IF ~rot.fingerprintEnabled THEN DefaultProfile
    ELSE (rot.cursor % NumProfiles) + 1

\* FingerprintRotator.next(): the rotator afterwards.
FingerprintNext(rot, t) ==
    IF ~rot.fingerprintEnabled THEN rot
    ELSE LET p == FingerprintPick(rot) IN
         [rot EXCEPT !.cursor = (rot.cursor + 1) % NumProfiles,
                     !.profiles[p].uses = @ + 1,
                     !.profiles[p].lastUsedAt = t]

\* A rotator that counts no block.
FingerprintReportBlocked_m(rot, profileId) == rot

\* FingerprintRotator.reportBlocked(profileId).
FingerprintReportBlocked(rot, profileId) ==
    IF profileId \notin Profiles THEN rot
    ELSE [rot EXCEPT !.profiles[profileId].blocked = @ + 1]

\* IncidentReporter.reportBlocked(source) up to its await: the marker is
\* appended.  The spike window is longer than the time the model covers, so
\* pruneBlockedMarkers removes nothing.
IncidentReportBlocked(rot) == [rot EXCEPT !.blockedMarkers = @ + 1]

\* selectedProxy = proxyPool.next(); selectedFingerprint = fingerprintRotator.next()
\* in execute call r.
Select(rot, r, t) ==
    LET picked == [proxy |-> ProxyPoolPick(rot, t), fingerprint |-> FingerprintPick(rot)]
        next == FingerprintNext(ProxyPoolNext(rot, t), t)
    IN [next EXCEPT !.selected[r] = picked]

\* The catch block of runAttempt as the pools see it, for execute call r that
\* caught appError: up to the await of the incident report when the failure
\* is blocked, up to the rethrow otherwise.
AttemptCatch(rot, r, appError, t) ==
    LET blocked == appError.code \in {"SOURCE_BLOCKED", "SOURCE_QUARANTINED"}
        sel == rot.selected[r]
        failed1 == [rot EXCEPT !.used[r] = sel]
        reported == IF sel.proxy # NoProxy
                    THEN reportFailure(failed1, sel.proxy, blocked, t)
                    ELSE failed1
    IN IF blocked
       THEN IncidentReportBlocked(
                FingerprintReportBlocked(
                    IF sel.proxy # NoProxy THEN quarantineProxy(reported, sel.proxy, t)
                    ELSE reported,
                    sel.fingerprint))
       ELSE Select(reported, r, t)

\* execute(request), called once per request: a proxy and a fingerprint are
\* selected, then attempt 1 begins.
RotatingExecute(r, s) ==
    /\ reqs[r].pc = "idle"
    /\ executeStep(r, s)
    /\ rotation' = Select(rotation, r, now)
    /\ UNCHANGED OutsideRotation

\* extractionService.execute resolves: the success path of runAttempt.
RotatingResolves(r) ==
    /\ ExtractorResolvesStep(r)
    /\ rotation' = IF rotation.selected[r].proxy # NoProxy
                   THEN reportSuccess(rotation, rotation.selected[r].proxy)
                   ELSE rotation
    /\ UNCHANGED OutsideRotation

\* extractionService.execute rejects with error: the catch block of runAttempt.
RotatingRejects(r, error) ==
    /\ ExtractorRejectsStep(r, error)
    /\ rotation' = AttemptCatch(rotation, r, normalizeError(error), now)
    /\ UNCHANGED OutsideRotation

\* incidentReporter.reportBlocked settles: the next proxy and fingerprint are
\* selected and the error is rethrown.
RotatingReportSettles(r) ==
    /\ ReportBlockedSettlesStep(r)
    /\ rotation' = Select(rotation, r, now)
    /\ UNCHANGED OutsideRotation

\* The context execute passes to deadLetterQueue.push once the retry loop of
\* call r has thrown: the ids of selectedProxy and selectedFingerprint as they
\* stand then.  push persists it unchanged.
DeadLetterContext(r) ==
    [proxy_id |-> rotation.selected[r].proxy,
     fingerprint_id |-> rotation.selected[r].fingerprint]

RotationNext ==
    \/ \E r \in Reqs, s \in Sources : RotatingExecute(r, s)
    \/ \E r \in Reqs : RotatingResolves(r)
    \/ \E r \in Reqs, error \in ExtractorErrors : RotatingRejects(r, error)
    \/ \E r \in Reqs : RotatingReportSettles(r)
    \/ \E r \in Reqs : SleepResolves(r)
    \/ ExecutorTick

\* ---------------------------------------------------------------------------
\* CheckpointStore (checkpoint-store.ts) under ResilientExecutor
\* ---------------------------------------------------------------------------

\* CheckpointStore.start(requestId, ...): the record is set, then enforceLimit.
\* The id of a record is the number of the execute call; of its stages only
\* the time of the last one (updated_at) is kept.
NewCheckpoint(r, t) ==
    [request_id |-> r, status |-> "running", updated_at |-> t, error |-> FALSE]

\* The place of the record with the given id, 0 when there is none
\* (records.get).
RecordPlace(recs, r) ==
    IF \E i \in 1..Len(recs) : recs[i].request_id = r
    THEN CHOOSE i \in 1..Len(recs) : recs[i].request_id = r
    ELSE 0

\* Without(recs, i): the records but the one at place i (records.delete).
Without(recs, i) == SubSeq(recs, 1, i - 1) \o SubSeq(recs, i + 1, Len(recs))

\* The first record of a stable sort by updated_at: the oldest update, the
\* earliest inserted among equals.
OldestUpdated(recs) ==
    CHOOSE i \in 1..Len(recs) :
        \A j \in 1..Len(recs) :
            \/ recs[i].updated_at < recs[j].updated_at
            \/ recs[i].updated_at = recs[j].updated_at /\ i <= j

\* CheckpointStore.enforceLimit(): the oldest-updated records are deleted
\* until maxEntries are left.
RECURSIVE enforceLimit(_)
enforceLimit(recs) ==
    IF Len(recs) <= CheckpointMaxEntries THEN recs
    ELSE enforceLimit(Without(recs, OldestUpdated(recs)))

\* CheckpointStore.start: records.set puts a new id last.
start(recs, r, t) ==
    LET i == RecordPlace(recs, r)
        put == IF i = 0 THEN Append(recs, NewCheckpoint(r, t))
               ELSE [recs EXCEPT ![i] = NewCheckpoint(r, t)]
    IN enforceLimit(put)

\* CheckpointStore.stage: nothing when the record is gone.
stage(recs, r, t) ==
    LET i == RecordPlace(recs, r) IN
    IF i = 0 THEN recs
    ELSE [recs EXCEPT ![i].updated_at = t]

\* CheckpointStore.succeed and CheckpointStore.fail.
succeed(recs, r, t) ==
    LET i == RecordPlace(recs, r) IN
    IF i = 0 THEN recs
    ELSE [recs EXCEPT ![i].status = "succeeded", ![i].updated_at = t]
fail(recs, r, t) ==
    LET i == RecordPlace(recs, r) IN
    IF i = 0 THEN recs
    ELSE [recs EXCEPT ![i].status = "failed", ![i].error = TRUE, ![i].updated_at = t]

CheckpointInit == checkpoints = <<>>

\* What a step of execute call r writes to the store once the call stands at
\* pc: the stages of the step, then succeed when the call returns, fail when
\* it throws.
Trace(recs, r, pc, t) ==
    LET staged == stage(recs, r, t) IN
    IF pc = "done" THEN succeed(staged, r, t)
    ELSE IF pc = "failed" THEN fail(staged, r, t)
    ELSE staged

\* execute(request), called once per request: start, stage "received", then
\* attempt 1.
CheckpointedExecute(r, s) ==
    /\ reqs[r].pc = "idle"
    /\ executeStep(r, s)
    /\ checkpoints' = Trace(start(checkpoints, r, now), r, reqs'[r].pc, now)
    /\ UNCHANGED OutsideCheckpoint

\* The other steps of an execute call: the Extractor resolves or rejects, the
\* incident report settles, the sleep before a retry ends.
CheckpointedResolves(r) ==
    /\ ExtractorResolvesStep(r)
    /\ checkpoints' = Trace(checkpoints, r, reqs'[r].pc, now)
    /\ UNCHANGED OutsideCheckpoint
CheckpointedRejects(r, error) ==
    /\ ExtractorRejectsStep(r, error)
    /\ checkpoints' = Trace(checkpoints, r, reqs'[r].pc, now)
    /\ UNCHANGED OutsideCheckpoint
CheckpointedReportSettles(r) ==
    /\ ReportBlockedSettlesStep(r)
    /\ checkpoints' = Trace(checkpoints, r, reqs'[r].pc, now)
    /\ UNCHANGED OutsideCheckpoint
CheckpointedSleepResolves(r) ==
    /\ SleepResolvesStep(r)
    /\ checkpoints' = Trace(checkpoints, r, reqs'[r].pc, now)
    /\ UNCHANGED OutsideCheckpoint

CheckpointNext ==
    \/ \E r \in Reqs, s \in Sources : CheckpointedExecute(r, s)
    \/ \E r \in Reqs : CheckpointedResolves(r)
    \/ \E r \in Reqs, error \in ExtractorErrors : CheckpointedRejects(r, error)
    \/ \E r \in Reqs : CheckpointedReportSettles(r)
    \/ \E r \in Reqs : CheckpointedSleepResolves(r)
    \/ ExecutorTick

\* ---------------------------------------------------------------------------
\* RotatingProxyPool (layout-fallback.ts) with several proxies
\* ---------------------------------------------------------------------------

\* ProxyState after construction; the id of a proxy is its place in proxyUrls.
NewProxyState ==
    [successes |-> 0, failures |-> 0, blocked |-> 0, lastUsedAt |-> NoTime,
     quarantinedUntil |-> NoTime, lastError |-> FALSE]

\* The pool after construction from config {enabled, proxyUrls, quarantineMs},
\* n being the number of proxyUrls.  called and picked are history: the last
\* call and what next() returned.  The clock starts after the epoch.
NewPool(enabled, n) ==
    [enabled |-> enabled, proxies |-> [i \in 1..n |-> NewProxyState], now |-> 1,
     called |-> "none", picked |-> NoProxy]

ProxyPoolInit ==
    \E enabled \in BOOLEAN, n \in 0..NumProxies : proxyPool = NewPool(enabled, n)

\* A filter that lets quarantined proxies through.
PoolEligible_m(entry, t) == TRUE

\* The filter of next(): !entry.quarantinedUntil || now >= entry.quarantinedUntil.
PoolEligible(entry, t) == entry.quarantinedUntil = NoTime \/ t >= entry.quarantinedUntil

\* The comparator of next(): lastUsedAt ?? 0 ascending, then failures minus
\* successes ascending; negative when a sorts before b.
PoolCompare(a, b) ==
    LET aUsed == IF a.lastUsedAt = NoTime THEN 0 ELSE a.lastUsedAt
        bUsed == IF b.lastUsedAt = NoTime THEN 0 ELSE b.lastUsedAt
    IN IF aUsed # bUsed THEN aUsed - bUsed
       ELSE (a.failures - a.successes) - (b.failures - b.successes)

\* eligible[0] of next(): the first of the eligible proxies after the stable
\* sort, NoProxy when rotation is disabled or nothing is eligible.
PoolPick(pool) ==
    LET ids == DOMAIN pool.proxies
        eligible == {i \in ids : PoolEligible(pool.proxies[i], pool.now)}
    IN IF ~pool.enabled \/ ids = {} \/ eligible = {} THEN NoProxy
       ELSE CHOOSE i \in eligible :
               \A j \in eligible :
                  LET c == PoolCompare(pool.proxies[i], pool.proxies[j]) IN
                  c < 0 \/ (c = 0 /\ i <= j)

\* RotatingProxyPool.next().
PoolNext ==
    /\ LET picked == PoolPick(proxyPool) IN
       proxyPool' = [proxyPool EXCEPT
                        !.called = "next", !.picked = picked,
                        !.proxies = IF picked = NoProxy THEN @
                                    ELSE [@ EXCEPT ![picked].lastUsedAt = proxyPool.now]]
    /\ UNCHANGED OutsideProxyPool

\* RotatingProxyPool.reportSuccess(proxyId).
PoolReportSuccess(proxyId) ==
    /\ proxyId \in DOMAIN proxyPool.proxies
    /\ proxyPool.proxies[proxyId].successes < MaxPoolReports
    /\ proxyPool' = [proxyPool EXCEPT !.called = "reportSuccess",
                                      !.proxies[proxyId].successes = @ + 1,
                                      !.proxies[proxyId].lastError = FALSE]
    /\ UNCHANGED OutsideProxyPool

\* RotatingProxyPool.reportFailure(proxyId, {blocked}).
PoolReportFailure(proxyId, blocked) ==
    /\ proxyId \in DOMAIN proxyPool.proxies
    /\ proxyPool.proxies[proxyId].failures < MaxPoolReports
    /\ proxyPool' =
          [proxyPool EXCEPT
              !.called = "reportFailure",
              !.proxies[proxyId] =
                  IF blocked
                  THEN [@ EXCEPT !.failures = @ + 1, !.lastError = TRUE, !.blocked = @ + 1,
                                 !.quarantinedUntil = proxyPool.now + ProxyQuarantineMs]
                  ELSE [@ EXCEPT !.failures = @ + 1, !.lastError = TRUE]]
    /\ UNCHANGED OutsideProxyPool

\* Time passes.
PoolTick ==
    /\ proxyPool.now < MaxPoolNow
    /\ proxyPool' = [proxyPool EXCEPT !.now = @ + 1, !.called = "none"]
    /\ UNCHANGED OutsideProxyPool

PoolCallsNext ==
    \/ PoolNext
    \/ \E proxyId \in 1..NumProxies : PoolReportSuccess(proxyId)
    \/ \E proxyId \in 1..NumProxies, blocked \in BOOLEAN : PoolReportFailure(proxyId, blocked)
    \/ PoolTick

\* ---------------------------------------------------------------------------
\* The cache key: FetchPipeline.normalizeRequest and buildFetchCacheKey
\* ---------------------------------------------------------------------------

\* Field names are numbered in the order localeCompare gives them.
FieldNames == 1..NumFields
RECURSIVE ListsUpTo(_)
ListsUpTo(n) ==
    IF n = 0 THEN {<<>>}
    ELSE LET shorter == ListsUpTo(n - 1) IN
         shorter \cup {Append(l, f) : l \in {s \in shorter : Len(s) = n - 1}, f \in FieldNames}
FieldLists == ListsUpTo(MaxFieldsLen)

\* defaultFastFields(source, operation) for the source and operation of the
\* requests: three field names.
DefaultFastFields == <<1, 2, 3>>

\* fields.slice(0, max)
Slice(fields, max) == SubSeq(fields, 1, Min(max, Len(fields)))

\* [...fields].sort((a, b) => a.localeCompare(b))
RECURSIVE InsertSorted(_, _)
InsertSorted(sorted, f) ==
    IF sorted = <<>> THEN <<f>>
    ELSE IF f < Head(sorted) THEN <<f>> \o sorted
    ELSE <<Head(sorted)>> \o InsertSorted(Tail(sorted), f)
RECURSIVE SortFields(_)
SortFields(fields) ==
    IF fields = <<>> THEN <<>>
    ELSE InsertSorted(SortFields(SubSeq(fields, 1, Len(fields) - 1)), fields[Len(fields)])

\* A pipeline that sorts the fields before it trims them.
FastFields_m(fields) ==
    LET chosen == IF Len(fields) = 0 THEN DefaultFastFields ELSE fields
    IN Slice(SortFields(chosen), FastModeMaxFields)

\* The fields normalizeRequest leaves in a fast-mode request: the defaults
\* when none are asked for, and at most fastModeMaxFields of them.
FastFields(fields) ==
    LET chosen == IF Len(fields) = 0 THEN DefaultFastFields ELSE fields
    IN IF Len(chosen) > FastModeMaxFields THEN Slice(chosen, FastModeMaxFields)
       ELSE chosen

\* FetchPipeline.normalizeRequest(input), input being {fields, fast_mode,
\* cache_mode} and the rest of the request, which the two requests share.
normalizeRequest(fastModeEnabled, input) ==
    IF ~(fastModeEnabled /\ input.fast_mode)
    THEN input
    ELSE [input EXCEPT !.fields = FastFields(input.fields), !.fast_mode = TRUE]

\* buildFetchCacheKey(request): the hash of the stable serialization, taken
\* to be injective, of {source, operation, target, sorted fields, freshness,
\* fast_mode}; what the two requests share is left out.
buildFetchCacheKey(request) ==
    [fields |-> SortFields(request.fields), fast_mode |-> request.fast_mode]

\* The cache key and the dedupe key FetchPipeline.execute gives input.
KeysOf(fastModeEnabled, input) ==
    LET normalized == normalizeRequest(fastModeEnabled, input)
        cacheKey == buildFetchCacheKey(normalized)
    IN [cacheKey |-> cacheKey, dedupeKey |-> DedupeKey(input.cache_mode, cacheKey)]

NoKeyCall ==
    [called |-> FALSE, fastModeEnabled |-> FALSE,
     first |-> [fields |-> <<>>, fast_mode |-> FALSE, cache_mode |-> "default"],
     second |-> [fields |-> <<>>, fast_mode |-> FALSE, cache_mode |-> "default"],
     firstKeys |-> KeysOf(FALSE, [fields |-> <<>>, fast_mode |-> FALSE,
                                  cache_mode |-> "default"]),
     secondKeys |-> KeysOf(FALSE, [fields |-> <<>>, fast_mode |-> FALSE,
                                   cache_mode |-> "default"])]

CacheKeyInit == keyCall = NoKeyCall

\* Two execute calls with inputs first and second, up to their keys.
ExecuteBoth(fastModeEnabled, first, second) ==
    /\ keyCall' = [called |-> TRUE, fastModeEnabled |-> fastModeEnabled,
                   first |-> first, second |-> second,
                   firstKeys |-> KeysOf(fastModeEnabled, first),
                   secondKeys |-> KeysOf(fastModeEnabled, second)]
    /\ UNCHANGED OutsideCacheKey

\* The calls are over.
KeysReturn ==
    /\ keyCall.called
    /\ keyCall' = NoKeyCall
    /\ UNCHANGED OutsideCacheKey

\* first and second list the same fields as often, in any order.
SameFields(first, second) ==
    /\ Len(first) = Len(second)
    /\ \A f \in FieldNames :
          Cardinality({i \in 1..Len(first) : first[i] = f})
             = Cardinality({i \in 1..Len(second) : second[i] = f})

CacheKeyNext ==
    \/ /\ ~keyCall.called
       /\ \E fastModeEnabled \in BOOLEAN, fast \in BOOLEAN, mode \in CacheModes,
             fields \in FieldLists :
             \E other \in {l \in FieldLists : SameFields(fields, l)} :
                 ExecuteBoth(fastModeEnabled,
                             [fields |-> fields, fast_mode |-> fast, cache_mode |-> mode],
                             [fields |-> other, fast_mode |-> fast, cache_mode |-> mode])
    \/ KeysReturn

\* ---------------------------------------------------------------------------
\* IncidentReporter (incident-reporter.ts) called on its own, no webhook
\* ---------------------------------------------------------------------------

\* The sources blocked failures are reported for.
ReportedSources == {"x", "y"}

NoIncident == [level |-> "none", kind |-> "none", source |-> "none"]

\* The reporter after construction.  last is history: the last call and the
\* incident it emitted (NoIncident when it emitted none).
NewIncidentReporter ==
    [now |-> 0, blockedMarkers |-> <<>>, events |-> <<>>,
     last |-> [op |-> "none", source |-> "none", emitted |-> NoIncident]]

IncidentInit == incident = NewIncidentReporter

\* A reporter that never forgets a marker.
pruneBlockedMarkers_m(markers, t) == markers

\* pruneBlockedMarkers(): markers are shifted off the front while the first
\* one is older than the window.
RECURSIVE pruneBlockedMarkers(_, _)
pruneBlockedMarkers(markers, t) ==
    IF Len(markers) > 0 /\ Head(markers).at < t - BlockedSpikeWindowMs
    THEN pruneBlockedMarkers(Tail(markers), t)
    ELSE markers

\* emit(event) with no webhook configured: the event is pushed and the list
\* is cut to its last maxRecentEvents * 5.
EmitEvent(events, event) ==
    LET pushed == Append(events, event)
        limit == MaxRecentEvents * 5
    IN IF Len(pushed) > limit THEN SubSeq(pushed, Len(pushed) - limit + 1, Len(pushed))
       ELSE pushed

\* reportBlocked(source).
ReportBlocked(source) ==
    /\ Len(incident.blockedMarkers) < MaxMarkers
    /\ LET pushed == Append(incident.blockedMarkers, [source |-> source, at |-> incident.now])
           markers == pruneBlockedMarkers(pushed, incident.now)
           recentCount == Cardinality({i \in 1..Len(markers) : markers[i].source = source})
           spike == [level |-> "critical", kind |-> "blocked_spike", source |-> source]
       IN incident' =
             IF recentCount >= BlockedSpikeThreshold
             THEN [incident EXCEPT !.blockedMarkers = markers,
                                   !.events = EmitEvent(@, spike),
                                   !.last = [op |-> "reportBlocked", source |-> source,
                                             emitted |-> spike]]
             ELSE [incident EXCEPT !.blockedMarkers = markers,
                                   !.last = [op |-> "reportBlocked", source |-> source,
                                             emitted |-> NoIncident]]
    /\ UNCHANGED OutsideIncident

\* reportEvent(event) with the dead-letter incident of execute.
ReportEvent(source) ==
    /\ LET event == [level |-> "warning", kind |-> "dead_letter", source |-> source] IN
       incident' = [incident EXCEPT !.events = EmitEvent(@, event),
                                    !.last = [op |-> "reportEvent", source |-> source,
                                              emitted |-> event]]
    /\ UNCHANGED OutsideIncident

\* Time passes.
ReporterTick ==
    /\ incident.now < MaxIncidentNow
    /\ incident' = [incident EXCEPT !.now = @ + 1,
                                    !.last = [op |-> "none", source |-> "none",
                                              emitted |-> NoIncident]]
    /\ UNCHANGED OutsideIncident

ReporterNext ==
    \/ \E source \in ReportedSources : ReportBlocked(source)
    \/ \E source \in ReportedSources : ReportEvent(source)
    \/ ReporterTick

\* ---------------------------------------------------------------------------
\* Properties of the circuit breaker and the resilient executor
\* ---------------------------------------------------------------------------

\* The last step recorded a failure, respectively a success, for source s.
FailureRecorded(s) == lastStep'.op = "failure" /\ lastStep'.source = s
SuccessRecorded(s) == lastStep'.op = "success" /\ lastStep'.source = s

\* A closed circuit counts exactly the weighted failures recorded since the
\* last success, and fewer than failureThreshold of them.
ClosedBelowThreshold ==
    \A s \in Sources :
        breakerEnabled /\ circuits[s].state = "closed" =>
            /\ circuits[s].consecutiveFailures = runWeight[s]
            /\ runWeight[s] < FailureThreshold

\* C5: from a closed circuit with failure counter 0, during a run of recorded
\* failures without a success (1 per normal failure, 2 per blocked one), the
\* circuit is open as soon as the weighted count reaches failureThreshold and is
\* still closed while the count is below it.  The registry of a disabled
\* breaker records nothing and keeps no circuit.
C5_OpensAtWeightedThreshold ==
    /\ []ClosedBelowThreshold
    /\ [][\A s \in Sources :
             FailureRecorded(s) /\ circuits[s].state = "closed" =>
                 IF runWeight'[s] >= FailureThreshold
                 THEN circuits'[s].state = "open"
                 ELSE circuits'[s].state = "closed"]_vars

\* Two normal failures have just opened a closed circuit.
C5_Witness ==
    \E s \in Sources :
        /\ lastStep.op = "failure" /\ lastStep.source = s
        /\ ~lastStep.blocked /\ lastStep.before = "closed"
        /\ runWeight[s] = FailureThreshold
        /\ circuits[s].state = "open"

\* The circuit of source s is open and its window has not passed; the source
\* is quarantined.
CircuitOpenNow(s) ==
    breakerEnabled /\ circuits[s].state = "open" /\ now < circuits[s].openUntil
QuarantinedNow(s) == sourceEntries[s] # NoTime /\ now < sourceEntries[s]

\* An attempt of request r begins in this step.
AttemptBegins(r) == lastStep'.started = r

\* The Extractor was not invoked for the current attempt of the request.
NotInvoked(rq) == rq.attempt \notin rq.invokedFor /\ rq.pc # "extracting"

\* C6 as stated: while the circuit of a source is open, every attempt for that
\* source fails at once with the circuit-open error and does not invoke the
\* Extractor.
C6_OpenCircuitFailsWithCircuitOpen ==
    [][\A r \in Reqs :
          AttemptBegins(r) /\ CircuitOpenNow(reqs'[r].source) =>
              /\ reqs'[r].gate = "circuit_open"
              /\ reqs'[r].error.code = "CIRCUIT_OPEN"
              /\ NotInvoked(reqs'[r])]_vars

\* C6: while the circuit of a source is open, every attempt for that source
\* fails at once without invoking the Extractor: with the circuit-open error
\* when the source is not quarantined, and with the quarantine error, which
\* the earlier check throws, when it is.
C6_OpenCircuitFailsFast ==
    [][\A r \in Reqs :
          AttemptBegins(r) /\ CircuitOpenNow(reqs'[r].source) =>
              /\ NotInvoked(reqs'[r])
              /\ IF QuarantinedNow(reqs'[r].source)
                 THEN /\ reqs'[r].gate = "quarantined"
                      /\ reqs'[r].error.code = "SOURCE_QUARANTINED"
                 ELSE /\ reqs'[r].gate = "circuit_open"
                      /\ reqs'[r].error.code = "CIRCUIT_OPEN"
                      /\ reqs'[r].pc = "failed"]_vars

\* An attempt has just been refused by an open circuit.
C6_Witness ==
    \E r \in Reqs :
        /\ lastStep.started = r
        /\ CircuitOpenNow(reqs[r].source)
        /\ reqs[r].gate = "circuit_open"
        /\ reqs[r].pc = "failed"
        /\ reqs[r].invokedFor = {}

\* C12: once a source is quarantined, every execute call for that source fails
\* at once with the quarantine error, without waiting for a retry delay and
\* without invoking the Extractor, until the quarantine has passed.
C12_QuarantinedSourceFailsAtOnce ==
    [][\A r \in Reqs :
          AttemptBegins(r) /\ QuarantinedNow(reqs'[r].source) =>
              /\ reqs'[r].gate = "quarantined"
              /\ reqs'[r].error.code = "SOURCE_QUARANTINED"
              /\ NotInvoked(reqs'[r])
              /\ reqs'[r].pc = "failed"]_vars

\* A half-open circuit counts exactly the successes recorded since it became
\* half_open, and fewer than halfOpenSuccessThreshold of them.
HalfOpenBelowThreshold ==
    \A s \in Sources :
        breakerEnabled /\ circuits[s].state = "half_open" =>
            /\ circuits[s].halfOpenSuccesses = halfOpenRun[s]
            /\ halfOpenRun[s] < HalfOpenSuccessThreshold

\* C7: from half_open, halfOpenSuccessThreshold consecutive recorded successes
\* return the circuit to closed with the failure counter 0; with fewer the
\* circuit is still half_open.
C7_ClosesAfterHalfOpenSuccesses ==
    /\ []HalfOpenBelowThreshold
    /\ [][\A s \in Sources :
             SuccessRecorded(s) /\ circuits[s].state = "half_open" =>
                 IF halfOpenRun'[s] >= HalfOpenSuccessThreshold
                 THEN /\ circuits'[s].state = "closed"
                      /\ circuits'[s].consecutiveFailures = 0
                      /\ circuits'[s].halfOpenSuccesses = 0
                 ELSE /\ circuits'[s].state = "half_open"
                      /\ circuits'[s].consecutiveFailures
                             = circuits[s].consecutiveFailures]_vars

\* The last of halfOpenSuccessThreshold successes has just closed a half-open
\* circuit.
C7_Witness ==
    \E s \in Sources :
        /\ lastStep.op = "success" /\ lastStep.source = s
        /\ lastStep.before = "half_open"
        /\ halfOpenRun[s] = HalfOpenSuccessThreshold
        /\ circuits[s].state = "closed"
        /\ circuits[s].consecutiveFailures = 0

\* The circuit has just been opened at the current instant.
OpenedNow(c) ==
    /\ c.state = "open"
    /\ c.openedAt = now
    /\ c.openUntil = now + OpenMs
    /\ c.halfOpenSuccesses = 0

\* C8: any single failure recorded while the circuit is half_open, normal or
\* blocked, reopens it: state open, a new window of openMs from now, half-open
\* success counter 0, exactly as a failure that opens a closed circuit does.
C8_HalfOpenFailureReopens ==
    [][\A s \in Sources :
          /\ FailureRecorded(s) /\ circuits[s].state = "half_open"
                => OpenedNow(circuits'[s])
          /\ FailureRecorded(s) /\ circuits[s].state = "closed"
                /\ circuits'[s].state = "open"
                => OpenedNow(circuits'[s])]_vars

\* A failure has just reopened a half-open circuit.
C8_Witness ==
    \E s \in Sources :
        /\ lastStep.op = "failure" /\ lastStep.source = s
        /\ lastStep.before = "half_open"
        /\ circuits[s].state = "open"
        /\ circuits[s].openedAt = now
        /\ now > 0

\* C9: decideRetry returns retry = true if and only if the category of the
\* error is one of blocked, timeout, network, internal and attempt <
\* maxAttempts; circuit, validation and non_retryable errors are never retried
\* and nothing is retried at attempt = maxAttempts.
C9_RetryIffRetryableAndAttemptsLeft ==
    retryCall.called =>
        /\ retryCall.decision.category = classifyRetryCategory(retryCall.error)
        /\ retryCall.decision.retry <=>
              /\ retryCall.decision.category \in {"blocked", "timeout", "network", "internal"}
              /\ retryCall.attempt < retryCall.maxAttempts
        /\ retryCall.decision.category \in {"circuit", "validation", "non_retryable"}
              => ~retryCall.decision.retry
        /\ retryCall.attempt = retryCall.maxAttempts => ~retryCall.decision.retry

\* A network failure retried on the attempt before the last.
C9_Witness ==
    /\ retryCall.called
    /\ retryCall.decision.retry
    /\ retryCall.decision.category = "network"
    /\ retryCall.attempt + 1 = retryCall.maxAttempts

\* At most one attempt of a request is in progress, and attempts are numbered
\* up to maxAttempts.
AttemptsInSequence ==
    \A r \in Reqs :
        /\ Cardinality(reqs[r].running) <= 1
        /\ reqs[r].running \subseteq {reqs[r].attempt}
        /\ reqs[r].attempt <= Max(1, RetryMaxAttempts)
        /\ reqs[r].invokedFor \subseteq 1..reqs[r].attempt

\* C10: within one execute call retries are strictly sequential: attempt k+1
\* starts only after attempt k has failed and the delay computed for attempt k
\* has elapsed, no two attempts are in progress at the same time, and attempts
\* are numbered 1, 2, ... without gaps up to at most maxAttempts.
C10_RetriesAreSequential ==
    /\ []AttemptsInSequence
    /\ [][\A r \in Reqs :
             AttemptBegins(r) =>
                 \/ /\ reqs[r].pc \in {"idle", "done", "failed"}
                    /\ reqs'[r].attempt = 1
                 \/ /\ reqs[r].pc = "sleeping"
                    /\ reqs[r].running = {}
                    /\ reqs[r].error # NoError
                    /\ reqs'[r].attempt = reqs[r].attempt + 1
                    /\ reqs[r].delayMs > 0
                    /\ now >= reqs[r].sleepFrom + reqs[r].delayMs]_vars
    /\ [][\A r \in Reqs :
             reqs'[r].attempt # reqs[r].attempt => AttemptBegins(r)]_vars

\* The second attempt of a request is in progress, begun after its delay.
C10_Witness ==
    \E r \in Reqs :
        /\ reqs[r].attempt = 2
        /\ reqs[r].pc = "extracting"
        /\ reqs[r].invokedFor = {1, 2}
        /\ now > 0

\* The Extractor call of request r is rejected in this step with an error of
\* the given code.
RejectedWith(r, code) ==
    /\ reqs[r].pc = "extracting" /\ reqs'[r].pc # "extracting"
    /\ reqs'[r].error.code = code

\* C21 as stated: an attempt that fails with a validation error is never
\* retried, whatever attempts remain: the call fails with that error.
C21_ValidationNeverRetried ==
    [][\A r \in Reqs :
          RejectedWith(r, "VALIDATION_ERROR") =>
              /\ reqs'[r].pc = "failed"
              /\ reqs'[r].attempt = reqs[r].attempt
              /\ reqs'[r].invokedFor = reqs[r].invokedFor]_vars

\* C21: an attempt that fails with a validation error whose message does not
\* mention a timeout is never retried, whatever attempts remain: the call fails
\* with that error without a further Extractor call; a validation error whose
\* message mentions a timeout is retried as a timeout while attempts remain.
C21_ValidationRetriedOnlyAsTimeout ==
    /\ [][\A r \in Reqs :
             RejectedWith(r, "VALIDATION_ERROR") =>
                 /\ reqs'[r].attempt = reqs[r].attempt
                 /\ reqs'[r].invokedFor = reqs[r].invokedFor
                 /\ reqs'[r].pc \in {"failed", "sleeping"}
                 /\ reqs'[r].pc = "sleeping" <=>
                        ( /\ reqs'[r].error.hasTimeout
                          /\ reqs[r].attempt < RetryMaxAttempts )]_vars
    /\ [][\A r \in Reqs :
             ( /\ reqs[r].pc = "failed" /\ reqs[r].error.code = "VALIDATION_ERROR"
               /\ reqs'[r] # reqs[r] )
             => reqs'[r].attempt = 1]_vars

\* The first attempt of a call failed with a plain validation error and the
\* call has failed after that one Extractor call, an attempt being left.
C21_Witness ==
    \E r \in Reqs :
        /\ reqs[r].pc = "failed" /\ reqs[r].error = ValidationError
        /\ reqs[r].attempt = 1 /\ reqs[r].attempt < RetryMaxAttempts
        /\ reqs[r].invokedFor = {1}

\* The loop asks for the delay of the next attempt of the same network failure.
NextNetworkDelay ==
    /\ retryCall.called /\ retryCall'.called
    /\ retryCall'.config = retryCall.config
    /\ retryCall'.error = retryCall.error
    /\ retryCall'.attempt = retryCall.attempt + 1
    /\ retryCall.decision.category = "network"
    /\ retryCall.decision.retry /\ retryCall'.decision.retry

\* C22 as stated: for a fixed network error and a fixed configuration the
\* delays of attempts 1, 2, 3, ... never decrease while they are below
\* maxDelayMs, and no delay exceeds maxDelayMs.
C22_DelaysNonDecreasing ==
    /\ [][NextNetworkDelay /\ retryCall.decision.delayMs < retryCall.config.maxDelayMs
             => retryCall'.decision.delayMs >= retryCall.decision.delayMs]_vars
    /\ [](retryCall.called => retryCall.decision.delayMs <= retryCall.config.maxDelayMs)

\* C26 as stated: taking the reliability snapshot changes no circuit state and
\* no quarantine entry: the state of the executor is the same before and
\* after a snapshot.
C26_SnapshotChangesNothing ==
    [][snapshot => /\ circuits' = circuits
                   /\ sourceEntries' = sourceEntries
                   /\ reqs' = reqs]_vars

\* C28 as stated: a circuit leaves open only for half_open, on a read or an
\* attempt at or after open_until; no success or failure recorded while it is
\* open moves it to closed or to half_open before open_until.
C28_OpenLeavesOnlyAfterWindow ==
    [][\A s \in Sources :
          circuits[s].state = "open" /\ circuits'[s].state # "open"
              => /\ circuits'[s].state = "half_open"
                 /\ now >= circuits[s].openUntil]_vars

\* An attempt of execute call r fails in this step: the Extractor rejected, or
\* an admission check of the attempt threw.  The error is reqs'[r].error.
ExtractorFailureOf(r) ==
    reqs[r].pc = "extracting" /\ reqs'[r].pc \in {"reporting", "sleeping", "failed"}
AdmissionFailureOf(r) ==
    /\ reqs[r].pc \in {"idle", "sleeping"}
    /\ reqs'[r].attempt = reqs[r].attempt + 1
    /\ reqs'[r].gate \in {"quarantined", "circuit_open"}

\* The step did everything a blocked failure asks for, and the error has not
\* reached the retry loop: the call awaits the incident report.
BlockedStepsDone(r) ==
    LET s == reqs[r].source
        sel == rotation.selected[r]
    IN /\ reqs'[r].pc = "reporting"
       /\ reqs'[r].attempt = reqs[r].attempt
       /\ breakerEnabled =>
             circuits'[s].consecutiveFailures = ensure(circuits, s).consecutiveFailures + 2
       /\ sourceEntries'[s] = now + SourceQuarantineMs
       /\ sel.proxy # NoProxy =>
             /\ rotation'.proxyEntry = now + ProxyQuarantineMs
             /\ rotation'.proxy.quarantinedUntil = now + ProxyQuarantineMs
             /\ rotation'.proxy.blocked = rotation.proxy.blocked + 1
       /\ rotation'.profiles[sel.fingerprint].blocked =
             rotation.profiles[sel.fingerprint].blocked + 1
       /\ rotation'.blockedMarkers = rotation.blockedMarkers + 1

\* The step quarantined nothing (an admission check may drop an expired
\* entry), counted no block and reported none.
NoBlockedStep(r) ==
    /\ \A s \in Sources : sourceEntries'[s] \in {sourceEntries[s], NoTime}
    /\ rotation'.proxyEntry = rotation.proxyEntry
    /\ rotation'.proxy.quarantinedUntil = rotation.proxy.quarantinedUntil
    /\ rotation'.proxy.blocked = rotation.proxy.blocked
    /\ \A p \in Profiles : rotation'.profiles[p].blocked = rotation.profiles[p].blocked
    /\ rotation'.blockedMarkers = rotation.blockedMarkers

C30_WitnessAdmission ==
    \E r \in Reqs :
        /\ reqs[r].gate = "quarantined"
        /\ reqs[r].pc \in {"sleeping", "failed"}
        /\ classifyRetryCategory(reqs[r].error) = "blocked"

\* C31 as stated: the context of the dead-letter record of a failed call names
\* the proxy and the fingerprint its final failed attempt was sent with.
C31_ContextNamesFinalAttempt ==
    \A r \in Reqs :
        reqs[r].pc = "failed" /\ reqs[r].gate = "passed" =>
            /\ DeadLetterContext(r).proxy_id = rotation.used[r].proxy
            /\ DeadLetterContext(r).fingerprint_id = rotation.used[r].fingerprint

\* Execute call r finishes in this step: it returns a result, or throws.
Returns(r) == reqs[r].pc \notin {"done", "failed"} /\ reqs'[r].pc = "done"
Throws(r) == reqs[r].pc \notin {"done", "failed"} /\ reqs'[r].pc = "failed"

\* C32 as stated: when an execute call returns, its checkpoint record exists
\* with status succeeded; when it throws, the record exists with status failed
\* and the error; whatever other requests ran concurrently.
C32_FinishedCallHasRecord ==
    [][\A r \in Reqs :
          /\ Returns(r) =>
                \E i \in 1..Len(checkpoints') :
                    /\ checkpoints'[i].request_id = r
                    /\ checkpoints'[i].status = "succeeded"
          /\ Throws(r) =>
                \E i \in 1..Len(checkpoints') :
                    /\ checkpoints'[i].request_id = r
                    /\ checkpoints'[i].status = "failed"
                    /\ checkpoints'[i].error]_vars

\* The proxy is quarantined at the pool's clock: now < quarantined_until.
PoolQuarantined(entry) ==
    entry.quarantinedUntil # NoTime /\ proxyPool.now < entry.quarantinedUntil
\* When the proxy was last used, a proxy never used counting as the longest ago.
PoolLastUsed(entry) == IF entry.lastUsedAt = NoTime THEN 0 ELSE entry.lastUsedAt

\* C33: next() never returns a quarantined proxy; when a proxy is eligible it
\* returns the least recently used one, the fewest net failures deciding
\* between equals; and it returns null exactly when rotation is disabled, no
\* proxy is configured or every proxy is quarantined.
C33_NextPicksLeastRecentlyUsedEligible ==
    [][proxyPool'.called = "next" =>
          LET proxies == proxyPool.proxies
              ids == DOMAIN proxies
              picked == proxyPool'.picked
          IN /\ picked # NoProxy =>
                   /\ picked \in ids
                   /\ ~PoolQuarantined(proxies[picked])
                   /\ \A j \in ids :
                         ~PoolQuarantined(proxies[j]) =>
                            \/ PoolLastUsed(proxies[picked]) < PoolLastUsed(proxies[j])
                            \/ /\ PoolLastUsed(proxies[picked]) = PoolLastUsed(proxies[j])
                               /\ proxies[picked].failures - proxies[picked].successes
                                     <= proxies[j].failures - proxies[j].successes
             /\ picked = NoProxy <=>
                   \/ ~proxyPool.enabled
                   \/ ids = {}
                   \/ \A j \in ids : PoolQuarantined(proxies[j])]_vars

\* next() has just passed over a quarantined proxy that was used longer ago,
\* and picked between two proxies by their net failures.
C33_Witness ==
    /\ proxyPool.called = "next"
    /\ proxyPool.picked = 2
    /\ PoolQuarantined(proxyPool.proxies[1])
    /\ proxyPool.proxies[1].lastUsedAt # NoTime
C33_WitnessNetFailures ==
    /\ proxyPool.called = "next"
    /\ proxyPool.picked = 2
    /\ ~PoolQuarantined(proxyPool.proxies[1])
    /\ proxyPool.proxies[1].lastUsedAt = NoTime
    /\ proxyPool.proxies[1].failures - proxyPool.proxies[1].successes = 1
C33_WitnessNull ==
    /\ proxyPool.called = "next"
    /\ proxyPool.picked = NoProxy
    /\ proxyPool.enabled
    /\ DOMAIN proxyPool.proxies = 1..NumProxies

\* C34 as stated: two requests that differ only in the order of their fields
\* are given the same cache key and the same dedup key, fast mode or not.
C34_KeysIgnoreFieldOrder ==
    keyCall.called /\ SameFields(keyCall.first.fields, keyCall.second.fields) =>
        /\ keyCall.firstKeys.cacheKey = keyCall.secondKeys.cacheKey
        /\ keyCall.firstKeys.dedupeKey = keyCall.secondKeys.dedupeKey

\* The markers of source s that lay inside the sliding window before the call,
\* and the new one.
MarkersInWindow(s) ==
    Cardinality({i \in 1..Len(incident.blockedMarkers) :
                    /\ incident.blockedMarkers[i].source = s
                    /\ incident.blockedMarkers[i].at >= incident.now - BlockedSpikeWindowMs})
       + 1

\* C35: reportBlocked(source) emits a critical blocked_spike incident for the
\* source exactly when its markers inside the window, the new one included,
\* reach the threshold; markers of other sources and markers older than the
\* window do not count.
C35_SpikeExactlyAtThreshold ==
    [][incident'.last.op = "reportBlocked" =>
          LET s == incident'.last.source IN
          IF MarkersInWindow(s) >= BlockedSpikeThreshold
          THEN /\ incident'.last.emitted =
                     [level |-> "critical", kind |-> "blocked_spike", source |-> s]
               /\ incident'.events[Len(incident'.events)] = incident'.last.emitted
          ELSE /\ incident'.last.emitted = NoIncident
               /\ incident'.events = incident.events]_vars

\* reportBlocked emitted nothing although the reporter held enough markers: of
\* another source, and of this source but older than the window.
C35_Witness ==
    /\ incident.last.op = "reportBlocked"
    /\ incident.last.emitted = NoIncident
    /\ \E i \in 1..Len(incident.blockedMarkers) :
          incident.blockedMarkers[i].source # incident.last.source
    /\ incident.now > BlockedSpikeWindowMs
    /\ \E e \in 1..Len(incident.events) :
          /\ incident.events[e].kind = "blocked_spike"
          /\ incident.events[e].source = incident.last.source
C35_WitnessSpike ==
    /\ incident.last.op = "reportBlocked"
    /\ incident.last.emitted.kind = "blocked_spike"

\* The tasks enqueue admitted, and those of them whose promise has settled in
\* one of the given ways.
AdmittedTasks == {t \in Tasks : admission[t] = "admitted"}
SettledAs(ways) == {t \in AdmittedTasks : outcome[t] \in ways}

\* C36: the admitted tasks are the queued, the in-flight, the completed and the
\* failed ones; inflight is never negative; the promise of an admitted task is
\* settled at most once, never that of a task still queued, and every settled
\* task is counted once, in completed when it resolved and in failed when it
\* was rejected with the task's error or the timeout error.
C36_QueueAccountingConserved ==
    /\ [](/\ Cardinality(AdmittedTasks) = Len(pending) + inflight + completed + failed
          /\ inflight >= 0
          /\ completed = Cardinality(SettledAs({"resolved"}))
          /\ failed = Cardinality(SettledAs({"error", "timeout"}))
          /\ inflight = Cardinality(SettledAs({"none"})) - Len(pending)
          /\ \A t \in Tasks : outcome[t] # "none" => t \in AdmittedTasks)
    /\ [][\A t \in Tasks : outcome[t] # "none" => outcome'[t] = outcome[t]]_vars

\* A task has resolved, another has timed out, one is in flight and one queued.
C36_Witness ==
    /\ completed >= 1
    /\ \E t \in Tasks : outcome[t] = "timeout"
    /\ inflight >= 1
    /\ Len(pending) >= 1

\* C37: every admitted task is eventually settled, paused queue or not, and
\* every drain call that waits eventually returns or rejects.
C37_AdmittedEventuallySettled ==
    /\ \A t \in Tasks : (admission[t] = "admitted") ~> (outcome[t] # "none")
    /\ \A d \in Drains : (drainState[d] = "waiting") ~> (drainState[d] \in {"resolved", "timeout"})

\* A task was admitted behind another while the queue was paused afterwards,
\* and was settled by its timeout with its body still running.
C37_Witness ==
    /\ ~accepting
    /\ \E t \in Tasks :
          /\ outcome[t] = "timeout"
          /\ body[t] = "running"
          /\ \E u \in Tasks : u # t /\ outcome[u] # "none" /\ admission[u] = "admitted"

\* The place of task t in the pending list s.
PlaceIn(s, t) == CHOOSE i \in 1..Len(s) : s[i] = t

\* The tasks in the pending list after the step.
PendingAfter == {pending'[i] : i \in 1..Len(pending')}

\* The body of task t is started in this step.
StartedNow(t) == body[t] = "idle" /\ body'[t] = "running"

\* The pending list is kept in the order of admission: the tasks that stay
\* pending keep their order, and a task admitted in this step comes behind
\* every task that was pending before it.
PendingInAdmissionOrder ==
    /\ \A u \in Pending \cap PendingAfter, t \in PendingAfter :
          \/ t = u
          \/ /\ t \in Pending
             /\ (PlaceIn(pending, u) < PlaceIn(pending, t)) <=>
                    (PlaceIn(pending', u) < PlaceIn(pending', t))
          \/ /\ t \notin Pending
             /\ admission[t] = "none" /\ admission'[t] = "admitted"
             /\ PlaceIn(pending', u) < PlaceIn(pending', t)
    /\ \A i, j \in 1..Len(pending') : pending'[i] = pending'[j] => i = j

\* Task u was admitted before task t, which is started in this step: u was
\* pending, and t was behind it in the list or is only now being admitted.
AdmittedEarlier(u, t) ==
    /\ u \in Pending /\ u # t
    /\ t \in Pending => PlaceIn(pending, u) < PlaceIn(pending, t)

\* C38: the queue is work-conserving and starts tasks in the order of their
\* admission: after every enqueue, task completion, pause or resume no task is
\* pending while inflight is below concurrency, and a step that starts a task
\* leaves no task pending that was admitted before it.
C38_WorkConservingFifo ==
    /\ [](~(Len(pending) > 0 /\ inflight < Concurrency))
    /\ [][PendingInAdmissionOrder]_vars
    /\ [][\A t \in Tasks : StartedNow(t) =>
             /\ t \in Pending \/ (admission[t] = "none" /\ admission'[t] = "admitted")
             /\ \A u \in Tasks : AdmittedEarlier(u, t) => u \notin PendingAfter]_vars

\* A task has settled, every slot is taken and two admitted tasks wait in the
\* pending list, one behind the other.
C38_Witness ==
    /\ completed + failed >= 1
    /\ inflight = Concurrency
    /\ Len(pending) >= 2

\* The circuit record c satisfies the state invariants: a closed circuit counts
\* fewer failures than the threshold and has no window, an open one has the
\* window openMs after its opening.
CircuitRecordOk(c) ==
    /\ c.state = "closed" =>
          c.consecutiveFailures < FailureThreshold /\ c.openUntil = NoTime
    /\ c.state = "open" =>
          c.openedAt # NoTime /\ c.openUntil = c.openedAt + OpenMs

\* The same of an entry returned by snapshot().
SnapshotEntryOk(e) ==
    /\ e.state = "closed" =>
          e.consecutive_failures < FailureThreshold /\ e.open_until = NoTime
    /\ e.state = "open" =>
          e.opened_at # NoTime /\ e.open_until = e.opened_at + OpenMs

\* The step is a recordSuccess or recordFailure call made for source name.
OutcomeRecordedFor(name) ==
    lastStep'.op \in {"success", "failure"} /\ lastStep'.source = name

\* C39: after any sequence of assertCanExecute, recordSuccess, recordFailure
\* and snapshot calls every circuit record, and every entry a snapshot taken
\* now would return, has state = closed only with consecutive_failures below
\* failureThreshold and open_until unset, and state = open only with
\* open_until = opened_at + openMs; and a recordSuccess or recordFailure call
\* for one source leaves the circuit record of every other source as it was.
C39_CircuitRecordInvariants ==
    /\ [](\A k \in CircuitKeys :
             circuits[k].present =>
                 /\ CircuitRecordOk(circuits[k])
                 /\ \A taken \in 0..now :
                       SnapshotEntryOk(SnapshotEntry(circuits[k], taken, now)))
    /\ [][\A name \in SourceNames :
             OutcomeRecordedFor(name) =>
                 \A k \in CircuitKeys \ {CircuitKey(name)} :
                     circuits'[k] = circuits[k]]_vars

\* The circuit of source x is open, the one of source y closed with one failure
\* counted, and the last call recorded a failure for x in its second spelling.
C39_Witness ==
    /\ breakerEnabled
    /\ circuits["x"].present /\ circuits["x"].state = "open"
    /\ circuits["y"].present /\ circuits["y"].state = "closed"
    /\ circuits["y"].consecutiveFailures = 1
    /\ lastStep.op = "failure" /\ lastStep.source = " X"

\* The circuit of source x has closed again out of half_open while the circuit
\* of source y is open.
C39_WitnessReset ==
    /\ circuits["x"].present /\ circuits["x"].state = "closed"
    /\ lastStep.op = "success" /\ lastStep.before = "half_open"
    /\ circuits["y"].present /\ circuits["y"].state = "open"

\* ---------------------------------------------------------------------------
\* Properties of the fetch pipeline and the deduplicator
\* ---------------------------------------------------------------------------

\* The cache has held an entry for the fingerprint at some time.
CacheEverHeld(fp) ==
    \/ cacheStore[fp].present
    \/ \E c \in Calls : calls[c].fp = fp /\ calls[c].got.present
    \/ \E e \in Calls : /\ execs[e].status = "gone"
                         /\ execs[e].ok /\ execs[e].write /\ execs[e].key.fp = fp

Returned(c) == calls[c].pc \in {"done", "failed"}

\* C1 as stated, for calls in default cache mode: any calls with an identical
\* fingerprint that were in progress at the same time while the cache never
\* held an entry for it, and that have returned, were served by one and the
\* same executor.execute invocation, received the same result, and exactly one
\* of two is not marked deduplicated.
C1_OneInvocationForConcurrentCalls ==
    \A c1, c2 \in Calls :
        ( /\ c1 # c2 /\ c2 \in concurrentWith[c1]
          /\ Returned(c1) /\ Returned(c2)
          /\ calls[c1].path = "exec" /\ calls[c2].path = "exec"
          /\ calls[c1].fp = calls[c2].fp
          /\ calls[c1].mode = "default" /\ calls[c2].mode = "default"
          /\ ~CacheEverHeld(calls[c1].fp) )
        => /\ calls[c1].joined = calls[c2].joined
           /\ calls[c1].result = calls[c2].result
           /\ calls[c1].deduped # calls[c2].deduped

\* C1 as amended: the calls that reach the deduplicator on the execution path
\* while execution e, started under their dedupe key, is outstanding are all
\* served by e (no further executor.execute invocation is made for them) and
\* marked deduplicated; the call that started e is the only one of the group
\* not marked deduplicated; every returned call of the group has the result,
\* or the error, of e.
C1_SingleFlightAtMiss ==
    \A e \in Calls :
        execs[e].status # "none" =>
            /\ calls[e].joined = e /\ ~calls[e].deduped
            /\ \A c \in Calls :
                   (calls[c].path = "exec" /\ (c = e \/ e \in seenOutstanding[c])) =>
                       /\ calls[c].joined = e
                       /\ calls[c].deduped <=> c # e
                       /\ execs[c].status # "none" <=> c = e
                       /\ Returned(c) => /\ calls[c].result = ExecValue(e)
                                          /\ (calls[c].pc = "done") <=> execs[e].ok

\* C1 witness: two calls were served by one execution and have returned, the
\* second one having reached the deduplicator while it was outstanding.
C1_Witness ==
    \E c1, c2 \in Calls :
        /\ c1 # c2 /\ c1 \in seenOutstanding[c2]
        /\ calls[c1].path = "exec" /\ calls[c2].path = "exec"
        /\ calls[c1].pc = "done" /\ calls[c2].pc = "done"
        /\ calls[c1].joined = c1 /\ calls[c2].joined = c1
        /\ ~calls[c1].deduped /\ calls[c2].deduped

\* The dedupe key of the deduper run a call has made.
KeyOfRun(cr) ==
    IF cr.path = "stale" THEN RefreshKey(cr.fp) ELSE DedupeKey(cr.mode, cr.fp)

AtMostOneOutstanding == \A k \in DedupeKeys : Cardinality(OutstandingFor(k)) <= 1

\* A step in which a call runs the deduper while an execution for its key is
\* outstanding starts no task and hands the call that execution's promise,
\* marked deduplicated.
RunWhileOutstandingJoins ==
    \A c \in Calls :
        (calls[c].joined = 0 /\ calls'[c].joined # 0
           /\ OutstandingFor(KeyOfRun(calls'[c])) # {}) =>
            /\ calls'[c].joined \in OutstandingFor(KeyOfRun(calls'[c]))
            /\ calls'[c].deduped
            /\ execs' = execs

\* C2: at every instant and for every dedupe key at most one execution is
\* outstanding (started and not settled), and a run issued while one is
\* outstanding starts nothing and returns the outstanding promise, marked
\* deduplicated.
C2_AtMostOneOutstandingPerKey ==
    []AtMostOneOutstanding /\ [][RunWhileOutstandingJoins]_vars

\* C2 witness: a call was handed the promise of an execution another call
\* started, and that execution is still outstanding.
C2_Witness ==
    \E c \in Calls :
        /\ calls[c].joined \notin {0, c} /\ calls[c].deduped
        /\ Outstanding(calls[c].joined)
        /\ execs[c].status = "none"

\* A step in which a call runs the deduper while no execution for its key is
\* outstanding starts a new execution of its own, not marked deduplicated.
RunAfterSettlementStarts ==
    \A c \in Calls :
        (calls[c].joined = 0 /\ calls'[c].joined # 0
           /\ OutstandingFor(KeyOfRun(calls'[c])) = {}) =>
            /\ calls'[c].joined = c
            /\ ~calls'[c].deduped
            /\ execs[c].status = "none"
            /\ execs'[c].status = "running"
            /\ deduperInflight'[KeyOfRun(calls'[c])] = c

\* C29: when a deduplicated task settles, by success or by failure, its
\* registration is removed: no key is registered unless its task is
\* outstanding, and the first run issued for the key after the settlement
\* starts a new execution, not marked deduplicated.
C29_SettledTaskUnregistered ==
    /\ [](\A k \in DedupeKeys :
             deduperInflight[k] # 0 =>
                 /\ Outstanding(deduperInflight[k])
                 /\ execs[deduperInflight[k]].key = k)
    /\ [][\A e \in Calls :
             Outstanding(e) /\ ~Outstanding(e)' => deduperInflight'[execs[e].key] = 0]_vars
    /\ [][RunAfterSettlementStarts]_vars

\* C29 witness: an execution has settled and a later call for the same key
\* has started an execution of its own.
C29_Witness ==
    \E c, e \in Calls :
        /\ c # e
        /\ execs[e].status = "gone"
        /\ execs[c].status = "running"
        /\ execs[c].key = execs[e].key
        /\ calls[c].joined = c /\ ~calls[c].deduped
        /\ deduperInflight[execs[c].key] = c

\* Call c has had the answer of ResponseCache.get for an entry the store held.
LookedUpEntry(c) == calls[c].state # "none" /\ calls[c].got.present

\* provider.delete of the expired lookup of call c completes in this step.
DeleteCompletes(c) == calls[c].pc = "evicting" /\ calls'[c].pc = "evicted"

\* C13 as stated: a read at time t is fresh when t < expiresAt, stale when
\* expiresAt <= t < staleUntil and a miss when t >= staleUntil, and after such
\* a miss the entry is gone.
C13_BoundsExclusive ==
    /\ [](\A c \in Calls : LookedUpEntry(c) =>
             LET t == calls[c].at
                 entry == calls[c].got
             IN /\ calls[c].state = "fresh" <=> t < entry.expiresAt
                /\ calls[c].state = "stale" <=>
                       (entry.expiresAt <= t /\ t < entry.staleUntil)
                /\ calls[c].state = "expired" <=> t >= entry.staleUntil)
    /\ [][\A c \in Calls : DeleteCompletes(c) =>
             cacheStore'[calls[c].fp] = NoEntry]_vars

\* C13: a read at time t is fresh when t <= expiresAt, stale when
\* expiresAt < t <= staleUntil and a miss when t > staleUntil; the miss deletes
\* the entry, so that the store holds nothing under the key once the deletion
\* has completed and a read of it is a miss.
C13_BoundsInclusive ==
    /\ [](\A c \in Calls : LookedUpEntry(c) =>
             LET t == calls[c].at
                 entry == calls[c].got
             IN /\ entry.staleUntil = entry.expiresAt + StaleTtl
                /\ calls[c].state = "fresh" <=> t <= entry.expiresAt
                /\ calls[c].state = "stale" <=>
                       (entry.expiresAt < t /\ t <= entry.staleUntil)
                /\ calls[c].state = "expired" <=> t > entry.staleUntil)
    /\ [][\A c \in Calls : DeleteCompletes(c) =>
             /\ calls[c].state = "expired"
             /\ cacheStore'[calls[c].fp] = NoEntry
             /\ \A t \in 0..MaxPClock :
                    LookupState(cacheStore'[calls[c].fp], t) = "miss"]_vars

\* A call read an entry at the very instant it expired and found it fresh.
C13_Witness ==
    \E c \in Calls :
        /\ LookedUpEntry(c) /\ calls[c].state = "fresh"
        /\ calls[c].at = calls[c].got.expiresAt
        /\ calls[c].pc = "done"

\* Call c resumes from its cache lookup in this step, with the given state.
LookupResumes(c, st) ==
    /\ calls[c].pc = "lookedUp" /\ calls'[c].pc # "lookedUp"
    /\ calls'[c].state = st

\* Call c ran the execution it awaited, and that execution wrote the cache.
ExecutedAndWrote(c) ==
    /\ calls[c].pc = "done" /\ calls[c].path = "exec"
    /\ calls[c].joined = c
    /\ execs[c].write /\ execs[c].ok /\ execs[c].status = "gone"

\* C14: in default mode a fresh lookup makes execute return the cached value
\* with cache.hit = true and start no execution (the deduplicator and the
\* executions are left alone); of two default-mode calls for one fingerprint,
\* the first executing and writing the cache and the second reading that entry
\* while it is fresh, the first has cache.hit = false and the second
\* cache.hit = true with the same payload.
C14_FreshHitStartsNoExecution ==
    /\ [][\A c \in Calls : LookupResumes(c, "fresh") =>
             /\ calls[c].mode = "default"
             /\ calls'[c].pc = "done"
             /\ calls'[c].result = calls[c].got.value
             /\ CacheHit(calls'[c].path)
             /\ deduperInflight' = deduperInflight
             /\ execs' = execs]_vars
    /\ [](\A c, d \in Calls :
             ( /\ ExecutedAndWrote(c)
               /\ calls[c].mode = "default" /\ calls[d].mode = "default"
               /\ calls[d].fp = calls[c].fp
               /\ calls[d].state = "fresh" /\ calls[d].got = execs[c].env )
             => /\ ~CacheHit(calls[c].path)
                /\ CacheHit(calls[d].path)
                /\ calls[d].pc = "done"
                /\ calls[d].result = calls[c].result)

\* The first default-mode call executed and wrote the cache, the second was
\* served the entry fresh.
C14_Witness ==
    \E c, d \in Calls :
        /\ ExecutedAndWrote(c)
        /\ calls[c].mode = "default" /\ calls[d].mode = "default"
        /\ calls[d].fp = calls[c].fp
        /\ calls[d].state = "fresh" /\ calls[d].got = execs[c].env
        /\ calls[d].pc = "done"
        /\ calls[d].result = calls[c].result

\* Calls c and d were in progress at the same time.
Concurrent(c, d) == c # d /\ (c \in concurrentWith[d] \/ d \in concurrentWith[c])

\* A stale lookup with stale-while-revalidate enabled finishes the call in the
\* same step with the stale value, and leaves exactly one execution outstanding
\* under the cache key, the one the call is attached to: the outstanding one
\* when there is one, and otherwise a new one that will write the cache.
StaleServedAndRefreshed ==
    \A c \in Calls :
        LookupResumes(c, "stale") /\ swr =>
            LET k == DedupeKey("default", calls[c].fp)
                before == OutstandingFor(k)
            IN /\ calls[c].mode = "default"
               /\ calls'[c].pc = "done" /\ calls'[c].path = "stale"
               /\ calls'[c].result = calls[c].got.value
               /\ CacheHit(calls'[c].path)
               /\ IF before # {}
                  THEN /\ calls'[c].joined \in before
                       /\ execs' = execs
                  ELSE /\ calls'[c].joined = c
                       /\ execs'[c].status = "running" /\ execs'[c].key = k
                       /\ execs'[c].write
                       /\ \A e \in Calls \ {c} : execs'[e] = execs[e]

\* A successful execution started for a stale reader writes an entry that is
\* fresh from the moment cache.set is called.
RefreshWritesFreshEntry ==
    \A e \in Calls :
        calls[e].path = "stale" =>
            /\ (execs[e].status = "running" /\ execs'[e].status # "running" /\ execs'[e].ok)
                   => /\ execs'[e].status = "writing"
                      /\ execs'[e].env = Envelope(e, pclock)
                      /\ LookupState(execs'[e].env, pclock) = "fresh"
            /\ (execs[e].status = "writing" /\ execs'[e].status # "writing")
                   => cacheStore'[execs[e].key.fp] = execs[e].env

\* C15 as stated: moreover, any number of concurrent stale readers of one key
\* cause a single execution.
C15_OneRefreshForConcurrentReaders ==
    /\ [][StaleServedAndRefreshed /\ RefreshWritesFreshEntry]_vars
    /\ [](\A c, d \in Calls :
             ( /\ Concurrent(c, d)
               /\ calls[c].path = "stale" /\ calls[d].path = "stale"
               /\ calls[c].fp = calls[d].fp )
             => calls[c].joined = calls[d].joined)

\* C15: in default mode with stale-while-revalidate enabled a stale lookup
\* returns the stale value without waiting for an execution and runs a
\* background re-execution through the deduplicator under the cache key: it
\* starts one exactly when none is outstanding for the key and otherwise shares
\* the outstanding one, so stale readers that reach the deduplicator while a
\* refresh is outstanding cause no further execution; a successful refresh
\* writes a fresh cache entry.
C15_StaleServedWithOneRefresh ==
    /\ [][StaleServedAndRefreshed /\ RefreshWritesFreshEntry]_vars
    /\ [](\A c, d \in Calls :
             ( /\ calls[c].path = "stale" /\ calls[d].path = "stale"
               /\ calls[c].fp = calls[d].fp
               /\ calls[c].joined \in seenOutstanding[d] )
             => calls[d].joined = calls[c].joined /\ execs[d].status = "none")

\* Two stale readers of one key shared one background execution, which has
\* written the cache.
C15_Witness ==
    \E c, d \in Calls :
        /\ c # d /\ swr
        /\ calls[c].path = "stale" /\ calls[d].path = "stale"
        /\ calls[c].joined = c /\ calls[d].joined = c
        /\ execs[c].status = "gone" /\ execs[c].ok
        /\ execs[d].status = "none"
        /\ cacheStore[calls[c].fp] = execs[c].env

\* C16: a call served a stale value has returned that value in the step that
\* triggered the background refresh, and nothing that happens to the refresh
\* afterwards, its failure included, changes the call or its result.
C16_RefreshFailureNeverReachesCaller ==
    /\ [](\A c \in Calls :
             calls[c].path = "stale" =>
                 /\ calls[c].pc = "done"
                 /\ calls[c].result = calls[c].got.value
                 /\ calls[c].joined # 0)
    /\ [][\A c \in Calls : calls[c].path = "stale" => calls'[c] = calls[c]]_vars

\* The background refresh of a call served stale has failed; the call stands
\* as it returned.
C16_Witness ==
    \E c \in Calls :
        /\ calls[c].path = "stale" /\ calls[c].pc = "done"
        /\ calls[c].result = calls[c].got.value
        /\ execs[calls[c].joined].status = "gone"
        /\ ~execs[calls[c].joined].ok

\* Call c has been made in bypass mode.
BypassCall(c) == calls[c].pc # "idle" /\ calls[c].mode = "bypass"

\* A bypass call never looks the cache up, and the execution it is attached to
\* runs under the bypass namespace and does not write the cache.
BypassSkipsCache ==
    \A c \in Calls :
        BypassCall(c) =>
            /\ calls[c].state = "none" /\ calls[c].got = NoEntry
            /\ calls[c].path = "exec" /\ calls[c].joined # 0
            /\ execs[calls[c].joined].key = [ns |-> "bypass", fp |-> calls[c].fp]
            /\ ~execs[calls[c].joined].write

\* Every change of the cache is the write of an execution outside the bypass
\* namespace or the deletion of an expired entry by a default-mode lookup.
CacheChangedOutsideBypass ==
    cacheStore' # cacheStore =>
        \/ \E e \in Calls : /\ execs[e].status = "writing" /\ execs'[e].status = "gone"
                             /\ execs[e].key.ns = "main"
        \/ \E c \in Calls : DeleteCompletes(c) /\ calls[c].mode = "default"

\* Concurrent bypass calls for one fingerprint share one execution; a bypass
\* call shares none with a call in another mode.
BypassNamespaceApart ==
    \A c, d \in Calls :
        (BypassCall(c) /\ c # d /\ calls[d].joined # 0 /\ calls[c].fp = calls[d].fp) =>
            IF calls[d].mode = "bypass"
            THEN Concurrent(c, d) => calls[c].joined = calls[d].joined
            ELSE calls[c].joined # calls[d].joined

\* C17: a bypass call neither reads nor writes the cache, and its execution is
\* deduplicated under the bypass namespace: concurrent bypass calls for one
\* fingerprint share one execution, and a bypass call never shares one with a
\* default-mode or refresh-mode call.
C17_BypassLeavesCacheAlone ==
    /\ [](BypassSkipsCache /\ BypassNamespaceApart)
    /\ [][CacheChangedOutsideBypass]_vars

\* Two concurrent bypass calls shared one execution and have returned its
\* result, while the store holds the entry it held before them.
C17_Witness ==
    \E c, d \in Calls :
        /\ BypassCall(c) /\ BypassCall(d) /\ Concurrent(c, d)
        /\ calls[c].joined = c /\ calls[d].joined = c
        /\ calls[c].pc = "done" /\ calls[d].pc = "done"
        /\ execs[d].status = "none"
        /\ calls[c].result = c /\ calls[d].result = c
        /\ cacheStore[calls[c].fp] = Envelope(EarlierValue, 0)

\* ---------------------------------------------------------------------------
\* DeadLetterQueue (src/src/reliability/dead-letter-queue.ts) and the catch
\* block of ResilientExecutor.execute (resilient-executor.ts, lines 189-230)
\* ---------------------------------------------------------------------------

\* A dead-letter record: the original request and the code of the final error.
\* The id of a record is the number of the execute call that pushed it.
NoRecord == [present |-> FALSE, request |-> 0, code |-> ""]
DeadLetterRecord(p, code) == [present |-> TRUE, request |-> p, code |-> code]

\* The final errors of the failed calls.
FinalErrorCodes == {"VALIDATION_ERROR", "SOURCE_BLOCKED"}

\* One failed execute call.  pc is the await it stands at: "prune_delete" and
\* "prune_index" in pruneExpired, "put_record", "evict" and "put_index" in push,
\* "incident" in the catch block; "thrown" once execute has rethrown the error.
\* created is the timestamp in the id of its record; keep and expired are the
\* locals of pruneExpired, removed the id popped by the eviction loop.
IdlePush ==
    [pc |-> "idle", code |-> "", created |-> 0, keep |-> <<>>, expired |-> <<>>,
     removed |-> 0, returned |-> FALSE, webhook |-> "none"]

\* The purge() call.  pc is the await it stands at: "delete" in the loop over
\* the index, "index" at the write of the emptied index; "returned" once it has
\* returned.  pos is the place of the loop in the index, removed its counter.
\* cleared is history: the ids the index held when purge emptied it.
IdlePurge == [pc |-> "idle", pos |-> 0, removed |-> 0, cleared |-> {}]

DeadLetterInit ==
    /\ dlqNow = 1
    /\ dlqEnabled \in BOOLEAN
    /\ dlqIndex = <<>>
    /\ dlqEntries = [i \in Pushes |-> NoRecord]
    /\ dlqStore = [i \in Pushes |-> NoRecord]
    /\ dlqStoreIndex = <<>>
    /\ dlqCalls = [p \in Pushes |-> IdlePush]
    /\ dlqEvicted = {}
    /\ dlqExpired = {}
    /\ dlqPurge = IdlePurge

\* parseTimestamp(id) and the retention test of pruneExpired at time t.
IsExpired(id, t) ==
    /\ RetentionMs > 0
    /\ dlqCalls[id].created # 0
    /\ t - dlqCalls[id].created > RetentionMs

\* The scan of pruneExpired over the index at time t.
PruneScan(index, t) ==
    LET old(id) == IsExpired(id, t)
        young(id) == ~IsExpired(id, t)
    IN [keep |-> SelectSeq(index, young), expired |-> SelectSeq(index, old)]

\* store.setValue(key, value) as the store sees it: writes take effect in the
\* order they are issued.
StorePut(store, id, record) == [store EXCEPT ![id] = record]

\* push after pruneExpired: the record is built and store.setValue(key, record)
\* is issued.
BuildRecord(p, code) ==
    /\ dlqCalls' = [dlqCalls EXCEPT ![p].pc = "put_record", ![p].code = code,
                                    ![p].created = dlqNow]
    /\ dlqStore' = StorePut(dlqStore, p, DeadLetterRecord(p, code))

\* The catch block of execute for a call whose retry loop threw an error with
\* the given code: deadLetterQueue.push is called.  A disabled queue returns
\* null and execute rethrows; otherwise pruneExpired scans the index and issues
\* the first deletion, or finds nothing expired and push goes on.
ExecuteCatch(p, code) ==
    /\ dlqCalls[p].pc = "idle"
    /\ IF ~dlqEnabled
       THEN /\ dlqCalls' = [dlqCalls EXCEPT ![p].pc = "thrown", ![p].code = code]
            /\ UNCHANGED <<dlqStore, dlqExpired>>
       ELSE LET scan == PruneScan(dlqIndex, dlqNow) IN
            IF scan.expired = <<>>
            THEN /\ BuildRecord(p, code)
                 /\ UNCHANGED dlqExpired
            ELSE /\ dlqCalls' = [dlqCalls EXCEPT ![p].pc = "prune_delete", ![p].code = code,
                                                 ![p].keep = scan.keep,
                                                 ![p].expired = scan.expired]
                 /\ dlqStore' = StorePut(dlqStore, Head(scan.expired), NoRecord)
                 /\ dlqExpired' = dlqExpired \cup
                        {scan.expired[i] : i \in 1..Len(scan.expired)}
    /\ UNCHANGED <<dlqNow, dlqEnabled, dlqPurge, dlqIndex, dlqEntries, dlqStoreIndex, dlqEvicted>>
    /\ UNCHANGED OutsideDeadLetter

\* pruneExpired: the deletion of an expired payload settles; the id leaves the
\* mirror; the next deletion is issued, or the index is replaced by keep and
\* its write is issued.
PruneDeleteSettles(p) ==
    /\ dlqCalls[p].pc = "prune_delete"
    /\ LET id == Head(dlqCalls[p].expired)
           rest == Tail(dlqCalls[p].expired)
       IN /\ dlqEntries' = [dlqEntries EXCEPT ![id] = NoRecord]
          /\ IF rest # <<>>
             THEN /\ dlqStore' = StorePut(dlqStore, Head(rest), NoRecord)
                  /\ dlqCalls' = [dlqCalls EXCEPT ![p].expired = rest]
                  /\ UNCHANGED <<dlqIndex, dlqStoreIndex>>
             ELSE /\ dlqIndex' = dlqCalls[p].keep
                  /\ dlqStoreIndex' = dlqCalls[p].keep
                  /\ dlqCalls' = [dlqCalls EXCEPT ![p].pc = "prune_index",
                                                  ![p].expired = <<>>, ![p].keep = <<>>]
                  /\ UNCHANGED dlqStore
    /\ UNCHANGED <<dlqNow, dlqEnabled, dlqPurge, dlqEvicted, dlqExpired>>
    /\ UNCHANGED OutsideDeadLetter

\* pruneExpired: the write of the index settles and push goes on.
PruneIndexSettles(p) ==
    /\ dlqCalls[p].pc = "prune_index"
    /\ BuildRecord(p, dlqCalls[p].code)
    /\ UNCHANGED <<dlqNow, dlqEnabled, dlqPurge, dlqIndex, dlqEntries, dlqStoreIndex,
                   dlqEvicted, dlqExpired>>
    /\ UNCHANGED OutsideDeadLetter

\* The eviction loop of push on index: the oldest id is popped and its deletion
\* issued, or the loop ends and the write of the index is issued.
EvictOrWriteIndex(p, index) ==
    IF Len(index) > MaxEntries
    THEN LET removed == index[Len(index)] IN
         /\ dlqIndex' = SubSeq(index, 1, Len(index) - 1)
         /\ dlqStore' = StorePut(dlqStore, removed, NoRecord)
         /\ dlqEvicted' = dlqEvicted \cup {removed}
         /\ dlqCalls' = [dlqCalls EXCEPT ![p].pc = "evict", ![p].removed = removed]
         /\ UNCHANGED dlqStoreIndex
    ELSE /\ dlqIndex' = index
         /\ dlqStoreIndex' = index
         /\ dlqCalls' = [dlqCalls EXCEPT ![p].pc = "put_index", ![p].removed = 0]
         /\ UNCHANGED <<dlqStore, dlqEvicted>>

\* push: the write of the record settles; the id is put at the head of the
\* index and the record in the mirror; the eviction loop starts.
PutRecordSettles(p) ==
    /\ dlqCalls[p].pc = "put_record"
    /\ dlqEntries' = [dlqEntries EXCEPT ![p] = DeadLetterRecord(p, dlqCalls[p].code)]
    /\ EvictOrWriteIndex(p, <<p>> \o dlqIndex)
    /\ UNCHANGED <<dlqNow, dlqEnabled, dlqPurge, dlqExpired>>
    /\ UNCHANGED OutsideDeadLetter

\* push: the deletion of an evicted payload settles; the id leaves the mirror
\* and the loop goes on.
EvictSettles(p) ==
    /\ dlqCalls[p].pc = "evict"
    /\ dlqEntries' = [dlqEntries EXCEPT ![dlqCalls[p].removed] = NoRecord]
    /\ EvictOrWriteIndex(p, dlqIndex)
    /\ UNCHANGED <<dlqNow, dlqEnabled, dlqPurge, dlqExpired>>
    /\ UNCHANGED OutsideDeadLetter

\* push: the write of the index settles and push returns the record; execute
\* awaits incidentReporter.reportEvent.
PutIndexSettles(p) ==
    /\ dlqCalls[p].pc = "put_index"
    /\ dlqCalls' = [dlqCalls EXCEPT ![p].pc = "incident", ![p].returned = TRUE]
    /\ UNCHANGED <<dlqNow, dlqEnabled, dlqPurge, dlqIndex, dlqEntries, dlqStore, dlqStoreIndex,
                   dlqEvicted, dlqExpired>>
    /\ UNCHANGED OutsideDeadLetter

\* reportEvent settles: execute rethrows the error.
IncidentSettles(p) ==
    /\ dlqCalls[p].pc = "incident"
    /\ dlqCalls' = [dlqCalls EXCEPT ![p].pc = "thrown"]
    /\ UNCHANGED <<dlqNow, dlqEnabled, dlqPurge, dlqIndex, dlqEntries, dlqStore, dlqStoreIndex,
                   dlqEvicted, dlqExpired>>
    /\ UNCHANGED OutsideDeadLetter

\* reportEvent settles after the given delivery: execute rethrows the error,
\* or is left with what emit threw.
IncidentSettlesWith(p, delivery) ==
    /\ dlqCalls[p].pc = "incident"
    /\ dlqCalls' = [dlqCalls EXCEPT
           ![p].pc = "thrown",
           ![p].code = IF emit(delivery).throws THEN normalizeError(WebhookError).code ELSE @,
           ![p].webhook = delivery]
    /\ UNCHANGED <<dlqNow, dlqEnabled, dlqPurge, dlqIndex, dlqEntries, dlqStore, dlqStoreIndex,
                   dlqEvicted, dlqExpired>>
    /\ UNCHANGED OutsideDeadLetter

\* purge: the loop over the index, which reads the array as it is when the
\* loop comes to its next place.  The deletion of the payload at that place is
\* issued; past the end the index and the mirror are emptied and the write of
\* the index is issued.
PurgeLoop(pos, removed) ==
    IF pos <= Len(dlqIndex)
    THEN /\ dlqStore' = StorePut(dlqStore, dlqIndex[pos], NoRecord)
         /\ dlqPurge' = [pc |-> "delete", pos |-> pos, removed |-> removed,
                         cleared |-> {}]
         /\ UNCHANGED <<dlqIndex, dlqEntries, dlqStoreIndex>>
    ELSE /\ dlqIndex' = <<>>
         /\ dlqEntries' = [i \in Pushes |-> NoRecord]
         /\ dlqStoreIndex' = <<>>
         /\ dlqPurge' = [pc |-> "index", pos |-> 0, removed |-> removed,
                         cleared |-> {dlqIndex[i] : i \in 1..Len(dlqIndex)}]
         /\ UNCHANGED dlqStore

\* purge() is called (POST /v1/admin/purge).  A disabled queue returns
\* { removed: 0 }.
purge ==
    /\ dlqPurge.pc = "idle"
    /\ IF ~dlqEnabled
       THEN /\ dlqPurge' = [pc |-> "returned", pos |-> 0, removed |-> 0,
                            cleared |-> {}]
            /\ UNCHANGED <<dlqIndex, dlqEntries, dlqStore, dlqStoreIndex>>
       ELSE PurgeLoop(1, 0)
    /\ UNCHANGED <<dlqNow, dlqEnabled, dlqCalls, dlqEvicted, dlqExpired>>
    /\ UNCHANGED OutsideDeadLetter

\* purge: the deletion of a payload settles and the loop goes on.
PurgeDeleteSettles ==
    /\ dlqPurge.pc = "delete"
    /\ PurgeLoop(dlqPurge.pos + 1, dlqPurge.removed + 1)
    /\ UNCHANGED <<dlqNow, dlqEnabled, dlqCalls, dlqEvicted, dlqExpired>>
    /\ UNCHANGED OutsideDeadLetter

\* purge: the write of the index settles and purge returns { removed }.
PurgeIndexSettles ==
    /\ dlqPurge.pc = "index"
    /\ dlqPurge' = [dlqPurge EXCEPT !.pc = "returned"]
    /\ UNCHANGED <<dlqNow, dlqEnabled, dlqIndex, dlqEntries, dlqStore, dlqStoreIndex,
                   dlqCalls, dlqEvicted, dlqExpired>>
    /\ UNCHANGED OutsideDeadLetter

\* Time passes.
DeadLetterTick ==
    /\ dlqNow < MaxDlqNow
    /\ dlqNow' = dlqNow + 1
    /\ UNCHANGED <<dlqEnabled, dlqPurge, dlqIndex, dlqEntries, dlqStore, dlqStoreIndex,
                   dlqCalls, dlqEvicted, dlqExpired>>
    /\ UNCHANGED OutsideDeadLetter

DeadLetterNext ==
    \/ \E p \in Pushes, code \in FinalErrorCodes : ExecuteCatch(p, code)
    \/ \E p \in Pushes : PruneDeleteSettles(p)
    \/ \E p \in Pushes : PruneIndexSettles(p)
    \/ \E p \in Pushes : PutRecordSettles(p)
    \/ \E p \in Pushes : EvictSettles(p)
    \/ \E p \in Pushes : PutIndexSettles(p)
    \/ \E p \in Pushes : IncidentSettles(p)
    \/ DeadLetterTick

\* The dead-letter queue under final failures and one purge, within one
\* retention period.
PurgeNext ==
    \/ \E p \in Pushes, code \in FinalErrorCodes : ExecuteCatch(p, code)
    \/ \E p \in Pushes : PutRecordSettles(p)
    \/ \E p \in Pushes : EvictSettles(p)
    \/ \E p \in Pushes : PutIndexSettles(p)
    \/ \E p \in Pushes : IncidentSettles(p)
    \/ purge
    \/ PurgeDeleteSettles
    \/ PurgeIndexSettles

\* The dead-letter queue under final failures whose pushes prune, and one
\* purge, all of them overlapping.
DeadLetterPurgeNext ==
    \/ \E p \in Pushes, code \in FinalErrorCodes : ExecuteCatch(p, code)
    \/ \E p \in Pushes : PruneDeleteSettles(p)
    \/ \E p \in Pushes : PruneIndexSettles(p)
    \/ \E p \in Pushes : PutRecordSettles(p)
    \/ \E p \in Pushes : EvictSettles(p)
    \/ \E p \in Pushes : PutIndexSettles(p)
    \/ \E p \in Pushes : IncidentSettles(p)
    \/ purge
    \/ PurgeDeleteSettles
    \/ PurgeIndexSettles
    \/ DeadLetterTick

\* ---------------------------------------------------------------------------
\* Properties of the dead-letter queue
\* ---------------------------------------------------------------------------

\* The number of times id occurs in the index.
IndexCount(id) == Cardinality({i \in 1..Len(dlqIndex) : dlqIndex[i] = id})

\* C11: for every execute call that has failed, exactly one dead-letter record
\* exists afterwards, holding the original request and the final error.  The
\* claim is read for an enabled queue and for a record that has neither been
\* evicted beyond maxEntries nor expired by retention.
C11_OneDeadLetterPerFailure ==
    \A p \in Pushes :
        ( /\ dlqEnabled
          /\ dlqCalls[p].pc = "thrown"
          /\ p \notin dlqEvicted \cup dlqExpired )
        => /\ IndexCount(p) = 1
           /\ dlqEntries[p] = DeadLetterRecord(p, dlqCalls[p].code)
           /\ dlqStore[p] = DeadLetterRecord(p, dlqCalls[p].code)

\* Push p pops id from the index in this step and issues the deletion of its
\* payload.
Evicts(p, id) ==
    /\ dlqCalls'[p].pc = "evict"
    /\ dlqCalls'[p].removed = id
    /\ dlqCalls'[p] # dlqCalls[p]

\* The ids of the index.
IndexIds(index) == {index[i] : i \in 1..Len(index)}

\* C23 as stated: the index, in memory and persisted, never holds more than
\* maxEntries ids, whatever pushes overlap; an id evicted beyond maxEntries is
\* the oldest one, no id that stays was pushed before it, and its persisted
\* payload is deleted.
C23_IndexBoundedOldestEvicted ==
    /\ [](Len(dlqIndex) <= MaxEntries /\ Len(dlqStoreIndex) <= MaxEntries)
    /\ [][\A p \in Pushes, id \in Pushes :
             Evicts(p, id) =>
                 /\ dlqStore'[id] = NoRecord
                 /\ \A kept \in IndexIds(dlqIndex') :
                        dlqCalls[id].created <= dlqCalls[kept].created]_vars

\* purge empties the index in this step.
PurgeClears == dlqPurge.pc # "index" /\ dlqPurge'.pc = "index"

\* C27 as stated: purge clears the whole queue: the persisted payload of every
\* id that was in the index when purge emptied it has been deleted, and when
\* purge returns the index is empty in memory and as persisted and the mirror
\* is empty.
C27_PurgeClearsEverything ==
    /\ [][PurgeClears => \A id \in IndexIds(dlqIndex) : dlqStore'[id] = NoRecord]_vars
    /\ [][dlqPurge.pc = "index" /\ dlqPurge'.pc = "returned" =>
             /\ dlqIndex' = <<>>
             /\ dlqStoreIndex' = <<>>
             /\ dlqEntries' = [i \in Pushes |-> NoRecord]]_vars

\* No push and no purge is in progress.
DeadLetterQuiet ==
    /\ \A p \in Pushes : dlqCalls[p].pc \in {"idle", "thrown"}
    /\ dlqPurge.pc \in {"idle", "returned"}

\* The record of push p has been purged: purge emptied the index while its id
\* was listed.
Purged(p) == p \in dlqPurge.cleared

\* Push p has returned a record that has not been evicted beyond maxEntries,
\* expired by retention or purged.
RecordDue(p) ==
    /\ dlqCalls[p].returned
    /\ p \notin dlqEvicted \cup dlqExpired
    /\ ~IsExpired(p, dlqNow)
    /\ ~Purged(p)

\* No record a push returned is lost.
ReturnedRecordsListed ==
    DeadLetterQuiet => \A p \in Pushes : RecordDue(p) => p \in IndexIds(dlqIndex)

\* No payload is persisted whose id the index does not list.
NoOrphanedPayload ==
    DeadLetterQuiet =>
        \A id \in Pushes : dlqStore[id] # NoRecord => id \in IndexIds(dlqIndex)

\* C40: whatever way pushes, their retention pruning and a purge have
\* overlapped, once none of them is in progress the index and the persisted
\* payloads agree: every record a push returned that has not been evicted
\* beyond maxEntries, expired by retention or purged is listed in the index,
\* and no payload is persisted whose id is not in the index.  A record counts
\* as purged whenever purge emptied the index with its id in it, whether the
\* purge began after the push returned or overlapped it.
C40_QuietQueueAgrees == ReturnedRecordsListed /\ NoOrphanedPayload

\* ---------------------------------------------------------------------------
\* The chaos scenarios (src/unnamed/part_008, lines 237-369): one fetch whose
\* Extractor fails its first attempts with the synthetic network failure
\* (src/src/extraction/service.ts, lines 201-215), under the executor and the
\* dead-letter queue
\* ---------------------------------------------------------------------------

\* The request of the scenario; the other calls may have failed before it.
ChaosRequest == 1

\* new Error("Synthetic network failure (chaos scenario).")
ChaosNetworkError == PlainErr(FALSE, TRUE)

\* POST /v1/fetch of the scenario: execute is called once.
ChaosFetch ==
    /\ reqs[ChaosRequest].pc = "idle"
    /\ \E s \in Sources : execute(ChaosRequest, s)

\* The retry loop has thrown: the catch block of execute pushes the dead letter.
ChaosExecuteCatch ==
    /\ reqs[ChaosRequest].pc = "failed"
    /\ ExecuteCatch(ChaosRequest, normalizeError(reqs[ChaosRequest].error).code)

\* A call that failed before the scenario pushes its dead letter.
ChaosEarlierFailure ==
    /\ reqs[ChaosRequest].pc = "idle"
    /\ \E p \in {ChaosRequest + 1}, code \in FinalErrorCodes : ExecuteCatch(p, code)

\* The Extractor fails the attempts within fail_attempts and succeeds beyond.
ChaosNext ==
    \/ ChaosFetch
    \/ ExtractorResolves(ChaosRequest)
    \/ ExtractorRejects(ChaosRequest, ChaosNetworkError)
    \/ SleepResolves(ChaosRequest)
    \/ ExecutorTick
    \/ ChaosExecuteCatch
    \/ ChaosEarlierFailure
    \/ \E p \in {ChaosRequest, ChaosRequest + 1} : PutRecordSettles(p)
    \/ \E p \in {ChaosRequest, ChaosRequest + 1} : PutIndexSettles(p)
    \/ \E p \in {ChaosRequest, ChaosRequest + 1} : IncidentSettles(p)

C24_Witness ==
    /\ reqs[ChaosRequest].pc = "done"
    /\ reqs[ChaosRequest].attempt = RetryMaxAttempts
    /\ RetryMaxAttempts > 1

IncidentNext ==
    \/ ChaosFetch
    \/ ExtractorResolves(ChaosRequest)
    \/ \E error \in ExtractorErrors : ExtractorRejects(ChaosRequest, error)
    \/ \E delivery \in WebhookOutcomes : ReportBlockedSettlesWith(ChaosRequest, delivery)
    \/ SleepResolves(ChaosRequest)
    \/ ExecutorTick
    \/ ChaosExecuteCatch
    \/ PutRecordSettles(ChaosRequest)
    \/ PutIndexSettles(ChaosRequest)
    \/ \E delivery \in WebhookOutcomes : IncidentSettlesWith(ChaosRequest, delivery)

\* C25: incident emission never makes a request fail.  However the delivery
\* of the blocked report comes out, runAttempt rethrows the error of the
\* attempt and the retry loop decides on that error; however the delivery of
\* the dead-letter incident comes out, execute raises the classified error of
\* the last attempt.
C25_IncidentsNeverFailRequest ==
    /\ [][( /\ reqs[ChaosRequest].pc = "reporting"
            /\ reqs'[ChaosRequest].pc # "reporting" )
          => /\ reqs'[ChaosRequest].error = reqs[ChaosRequest].error
             /\ \E jitter \in Jitters(JitterMs) :
                    reqs'[ChaosRequest] =
                        [RetryLoopCatch(reqs[ChaosRequest], reqs[ChaosRequest].error, jitter)
                            EXCEPT !.webhook = reqs'[ChaosRequest].webhook]]_vars
    /\ [](dlqCalls[ChaosRequest].pc = "thrown" =>
             /\ reqs[ChaosRequest].pc = "failed"
             /\ dlqCalls[ChaosRequest].code = normalizeError(reqs[ChaosRequest].error).code)

\* The fetch rejected the delivery of the blocked report of the last attempt
\* and of the dead-letter incident; execute has raised SOURCE_BLOCKED.
C25_Witness ==
    /\ dlqCalls[ChaosRequest].pc = "thrown"
    /\ dlqCalls[ChaosRequest].webhook = "rejected"
    /\ reqs[ChaosRequest].webhook = "rejected"
    /\ dlqCalls[ChaosRequest].code = "SOURCE_BLOCKED"

\* ---------------------------------------------------------------------------
\* Specifications
\* ---------------------------------------------------------------------------

Init ==
    QueueInit /\ PipelineInit /\ ExecutorInit /\ RetryInit /\ DeadLetterInit /\ RotationInit
    /\ CheckpointInit /\ ProxyPoolInit /\ CacheKeyInit /\ IncidentInit

\* A specification of one component leaves the others in their initial state,
\* configured with their defaults (stale-while-revalidate, the circuit breaker
\* and the dead-letter queue enabled) and with an empty cache.
InitQueue ==
    Init /\ swr /\ breakerEnabled /\ dlqEnabled /\ cacheStore = [f \in Fps |-> NoEntry]
        /\ rotation = RotationStart(FALSE, FALSE) /\ proxyPool = NewPool(FALSE, 0)
        /\ incident = NewIncidentReporter
InitPipeline ==
    Init /\ breakerEnabled /\ dlqEnabled /\ rotation = RotationStart(FALSE, FALSE) /\ proxyPool = NewPool(FALSE, 0)
        /\ incident = NewIncidentReporter
InitRegistry ==
    /\ QueueInit /\ PipelineInit /\ RegistryInit /\ RetryInit /\ DeadLetterInit
    /\ CheckpointInit /\ CacheKeyInit
    /\ swr /\ dlqEnabled /\ cacheStore = [f \in Fps |-> NoEntry]
    /\ rotation = RotationStart(FALSE, FALSE) /\ proxyPool = NewPool(FALSE, 0)
    /\ incident = NewIncidentReporter
InitExecutor ==
    Init /\ swr /\ dlqEnabled /\ cacheStore = [f \in Fps |-> NoEntry]
        /\ rotation = RotationStart(FALSE, FALSE) /\ proxyPool = NewPool(FALSE, 0)
        /\ incident = NewIncidentReporter
InitRetry ==
    Init /\ swr /\ breakerEnabled /\ dlqEnabled /\ cacheStore = [f \in Fps |-> NoEntry]
        /\ rotation = RotationStart(FALSE, FALSE) /\ proxyPool = NewPool(FALSE, 0)
        /\ incident = NewIncidentReporter
InitChaos ==
    Init /\ swr /\ breakerEnabled /\ dlqEnabled /\ cacheStore = [f \in Fps |-> NoEntry]
        /\ rotation = RotationStart(FALSE, FALSE) /\ proxyPool = NewPool(FALSE, 0)
        /\ incident = NewIncidentReporter
InitDeadLetter ==
    Init /\ swr /\ breakerEnabled /\ cacheStore = [f \in Fps |-> NoEntry]
        /\ rotation = RotationStart(FALSE, FALSE) /\ proxyPool = NewPool(FALSE, 0)
        /\ incident = NewIncidentReporter

\* The admission queue alone.
SpecQueue == InitQueue /\ [][QueueNext]_vars

\* The admission queue with timers that fire: the timer withTimeout sets for a
\* started task, and the one it sets for a waiting drain call, are not held
\* back forever.  Nothing is assumed of the task bodies.
FairSpecQueue ==
    /\ InitQueue
    /\ [][QueueNext]_vars
    /\ \A t \in Tasks : WF_vars(TaskTimeout(t))
    /\ \A d \in Drains : WF_vars(DrainTimeout(d))

\* The admission queue with the clock of its task timers.
SpecTimedQueue == InitQueue /\ [][TimedQueueNext]_vars

\* The fetch pipeline with its deduplicator and cache.
SpecPipeline == InitPipeline /\ [][PipelineNext]_vars

\* The resilient executor with the circuit breaker and the quarantine registry.
SpecExecutor == InitExecutor /\ [][ExecutorNext]_vars
SpecRegistry == InitRegistry /\ [][RegistryNext]_vars

\* The retry policy called on its own.
SpecRetry == InitRetry /\ [][RetryNext]_vars

\* The dead-letter queue under the final failures of execute.
SpecDeadLetter == InitDeadLetter /\ [][DeadLetterNext]_vars

\* The dead-letter queue with a purge.
SpecPurge == InitDeadLetter /\ [][PurgeNext]_vars

\* The dead-letter queue with retention pruning and a purge.
SpecDeadLetterPurge == InitDeadLetter /\ [][DeadLetterPurgeNext]_vars

\* One fetch of the chaos scenarios.
SpecChaos == InitChaos /\ [][ChaosNext]_vars

\* One fetch with incidents delivered to a webhook.
SpecIncident == InitChaos /\ [][IncidentNext]_vars

\* The executor with proxy rotation and fingerprint rotation, one fetch a request.
InitRotation ==
    Init /\ swr /\ dlqEnabled /\ cacheStore = [f \in Fps |-> NoEntry]
        /\ proxyPool = NewPool(FALSE, 0)
        /\ incident = NewIncidentReporter
SpecRotation == InitRotation /\ [][RotationNext]_vars

\* The executor with its checkpoint store, one fetch a request.
InitCheckpoint ==
    Init /\ swr /\ dlqEnabled /\ cacheStore = [f \in Fps |-> NoEntry]
        /\ rotation = RotationStart(FALSE, FALSE) /\ proxyPool = NewPool(FALSE, 0)
        /\ incident = NewIncidentReporter
SpecCheckpoint == InitCheckpoint /\ [][CheckpointNext]_vars

\* The proxy pool called on its own.
InitProxyPool ==
    Init /\ swr /\ breakerEnabled /\ dlqEnabled /\ cacheStore = [f \in Fps |-> NoEntry]
        /\ rotation = RotationStart(FALSE, FALSE)
        /\ incident = NewIncidentReporter
SpecProxyPool == InitProxyPool /\ [][PoolCallsNext]_vars

\* The cache key derived for pairs of requests.
SpecCacheKey == InitRetry /\ [][CacheKeyNext]_vars

\* The incident reporter called on its own.
SpecReporter == InitRetry /\ [][ReporterNext]_vars

Next ==
    QueueNext \/ TimedQueueNext \/ PipelineNext \/ ExecutorNext \/ RetryNext \/ DeadLetterNext
    \/ ChaosNext \/ IncidentNext \/ PurgeNext \/ RotationNext \/ CheckpointNext
    \/ PoolCallsNext \/ CacheKeyNext \/ ReporterNext \/ RegistryNext
    \/ DeadLetterPurgeNext
Spec == Init /\ [][Next]_vars
====
